---- MODULE Spec2Model ----
(***************************************************************************)
(* Model of claude-code-vectordb: the chunker of the ingestion script and  *)
(* the ProjectVectorDB client (initialize / addDocuments / query) layered  *)
(* on a collection-oriented vector store.                                  *)
(*                                                                         *)
(* Numbers that are fractions in the program (distances, similarities,     *)
(* thresholds) are carried in tenths: 7 stands for 0.7, 10 for 1.0.        *)
(***************************************************************************)
EXTENDS Integers, Sequences, FiniteSets, TLC

VARIABLES
  \* ---- createChunks(text, chunkSize, overlap) ----
  text,        \* argument: the text, a sequence of characters
  chunkSize,   \* argument
  overlap,     \* argument
  chunks,      \* local `chunks`, the value returned once cpc = "done"
  startIndex,  \* local `startIndex`
  cpc,         \* position in createChunks: "start", "loop", "done", "idle"
  \* ---- ProjectVectorDB (one client instance) ----
  isInitialized,      \* this.isInitialized
  collection,         \* this.collection: "null" or "handle"
  embeddingFunction,  \* this.embeddingFunction: TRUE iff one was configured
  docEmbedding,       \* the caller's document objects: id -> <<>> or <<embedding>>
  \* ---- the vector store behind this.client ----
  collExists,         \* the collection named collectionName exists
  stored,             \* id -> [content, embedding, metadata] held by the collection
  \* ---- what the last operation did (observation of one call) ----
  ret,                \* its outcome: [op, error, results]; error "" means it returned
  calls,              \* the external calls it issued, in order
  lastQuery,          \* arguments, request and raw response of the last query
  ingested,           \* id -> metadata as handed to addDocuments (before flattening)
  \* ---- ingestDocs(), one run of the ingestion script per value of `run` ----
  files,              \* the files the script reads: [docs, memoryBank, claudeMd]
  flags,              \* [clear, statsOnly] from process.argv
  documents,          \* local `documents`
  ipc,                \* position in ingestDocs, "idle" when no script runs
  batchStart,         \* `i` of the batch loop
  retryIndex,         \* `j` of the per-document loop
  successCount,       \* local `successCount`
  failedBatches,      \* local `failedBatches`
  hasEmbedding,       \* indices of `documents` whose object carries an embedding
  addLog,             \* the addDocuments calls of this run: [docs, ok, retry], in order
  storedBefore,       \* the collection's documents as this run found them
  run,                \* number of the run
  \* ---- the file system ----
  backupFile,         \* the backup file: [state, exists, content, written]
  \* ---- client instances and the asynchronous calls running on them ----
  clients,            \* client -> [isInitialized, collection] (this.isInitialized, this.collection)
  tasks,              \* call -> [client, op, confirm, pc, resp, calls, error]
  backend,            \* the store: [coll, next, docs] for the one collection name
  lifeObs,            \* what the calls did so far: [initCreates, deletes, dropped, faulty]
  started,            \* number of calls started
  \* ---- a pure function applied to an argument ----
  pureArg,            \* the argument
  pureOut,            \* the value returned, once purePc = "returned"
  purePc              \* "idle", "called", "returned"

chunkVars == <<text, chunkSize, overlap, chunks, startIndex, cpc>>

clientVars == <<isInitialized, collection, embeddingFunction, docEmbedding>>

storeVars == <<collExists, stored>>

obsVars == <<ret, calls, lastQuery, ingested>>

ingestVars == <<files, flags, documents, ipc, batchStart, retryIndex, successCount,
                failedBatches, hasEmbedding, addLog, storedBefore, run>>

fileVars == <<backupFile>>

lifeVars == <<clients, tasks, backend, lifeObs, started>>

pureVars == <<pureArg, pureOut, purePc>>

vars == <<text, chunkSize, overlap, chunks, startIndex, cpc,
          isInitialized, collection, embeddingFunction, docEmbedding,
          collExists, stored, ret, calls, lastQuery, ingested,
          files, flags, documents, ipc, batchStart, retryIndex, successCount,
          failedBatches, hasEmbedding, addLog, storedBefore, run, backupFile,
          clients, tasks, backend, lifeObs, started, pureArg, pureOut, purePc>>

Min(a, b) == IF a <= b THEN a ELSE b
Max(a, b) == IF a >= b THEN a ELSE b

(***************************************************************************)
(* Bounds of the chunker model                                             *)
(***************************************************************************)
MaxTextLen == 5
MaxChunkSize == 4
MaxOverlap == 3
\* cap on the chunks of a run that never ends; no terminating run has more than
\* MaxTextLen chunks
MaxChunks == MaxTextLen + 2

Chars == {"a", "b"}

Texts == UNION {[1..n -> Chars] : n \in 0..MaxTextLen}

(***************************************************************************)
(* String.prototype.slice(start, end): a negative index counts from the    *)
(* end of the string, both indices are clamped to [0, length].             *)
(***************************************************************************)
SliceIndex(i, len) == IF i < 0 THEN Max(len + i, 0) ELSE Min(i, len)

Slice(s, start, end) ==
  LET from == SliceIndex(start, Len(s))
      to   == SliceIndex(end, Len(s))
  IN  IF from < to THEN SubSeq(s, from + 1, to) ELSE <<>>

\* startIndex += chunkSize - overlap
NextStart_NoOverlap(s, cs, ov) == s + cs

NextStart(s, cs, ov) == s + cs - ov

(***************************************************************************)
(* Metadata values (DocumentMetadata is an open mapping, [key: string]:    *)
(* any).  A value carries its JavaScript kind; each kind keeps its payload *)
(* in a field of its own.  An ISO timestamp string is a string kept as its *)
(* sequence of digits, so that strings of this form can be ordered.        *)
(***************************************************************************)
Str(s) == [k |-> "string", s |-> s]
Num(n) == [k |-> "number", n |-> n]
Iso(t) == [k |-> "string", iso |-> t]
List(l) == [k |-> "array", l |-> l]
DateV(d) == [k |-> "date", d |-> d]
Obj == [k |-> "object"]
Null == [k |-> "null"]
Undefined == [k |-> "undefined"]
Bool(b) == [k |-> "boolean", b |-> b]

\* Date.prototype.toISOString on the (two-digit) day numbers of the model:
\* a fixed-width digit string
ToISOString(d) == <<d \div 10, d % 10>>

\* new Date(isoString): the instant an ISO string denotes
ParseISO(t) == 10 * t[1] + t[2]

\* Array.prototype.join(',')
RECURSIVE Join(_)
Join(l) ==
  IF Len(l) = 0 THEN ""
  ELSE IF Len(l) = 1 THEN l[1]
  ELSE l[1] \o "," \o Join(Tail(l))

\* the arm of sanitizeMetadata's loop taken for one value
SanitizeKeeps_All(v) == TRUE

SanitizeKeeps(v) == v.k \notin {"null", "undefined", "object"}

SanitizeValue(v) ==
  IF v.k = "array" THEN Str(Join(v.l))
  ELSE IF v.k = "date" THEN Iso(ToISOString(v.d))
  ELSE v

sanitizeMetadata(metadata) ==
  [key \in {x \in DOMAIN metadata : SanitizeKeeps(metadata[x])}
     |-> SanitizeValue(metadata[key])]

(***************************************************************************)
(* The documents a caller hands to the client, after the test script's     *)
(* testDocs: id, content, metadata.                                        *)
(***************************************************************************)
Corpus ==
  [d1 |-> [id |-> "d1", content |-> "styling",
           metadata |-> [source |-> Str("docs"), category |-> Str("architecture"),
                         lastModified |-> Iso(<<1, 2>>), priority |-> Num(90),
                         tags |-> List(<<"css", "tailwind">>)]],
   d2 |-> [id |-> "d2", content |-> "sanity",
           metadata |-> [source |-> Str("docs"), category |-> Str("architecture"),
                         lastModified |-> Iso(<<1, 2>>), priority |-> Num(85),
                         tags |-> List(<<"cms">>), frontmatter |-> Obj,
                         title |-> Null]],
   d3 |-> [id |-> "d3", content |-> "chatbot",
           metadata |-> [source |-> Str("memory-bank"), category |-> Str("chatbot"),
                         lastModified |-> Iso(<<0, 7>>), priority |-> Num(95),
                         tags |-> List(<<"ai">>)]]]

Ids == DOMAIN Corpus

IdOrder == <<"d1", "d2", "d3">>

QueryTexts == {"how is styling done", "which technology"}

(***************************************************************************)
(* The embedding generator and the store's distance, as the client sees    *)
(* them: generate is a function of the text, the distance is a function of *)
(* the two embeddings.  Embeddings are points on a line, distances are in  *)
(* tenths.                                                                 *)
(***************************************************************************)
Generate(t) ==
  CASE t = "styling" -> 3
    [] t = "sanity" -> -3
    [] t = "chatbot" -> 15
    [] t = "styling, revised" -> 4
    [] t = "how is styling done" -> 0
    [] t = "which technology" -> 8

Distance(a, b) == IF a >= b THEN a - b ELSE b - a

(***************************************************************************)
(* QueryOptions.  An optional field is <<>> when omitted and <<v>> when    *)
(* given.                                                                  *)
(***************************************************************************)
DefaultLimit == 5
DefaultThreshold == 7
One == 10

MaxLimit == 2

Limits == {<<>>} \cup {<<n>> : n \in 1..MaxLimit}

Thresholds == {<<>>, <<-10>>, <<0>>, <<9>>}

NoFilter == [category |-> <<>>, source |-> <<>>, tags |-> <<>>, dateRange |-> <<>>]

Filters ==
  { NoFilter,
    [NoFilter EXCEPT !.category = <<"architecture">>],
    [NoFilter EXCEPT !.source = <<"docs">>],
    [NoFilter EXCEPT !.tags = <<<<"css">>>>],
    [NoFilter EXCEPT !.tags = <<<<>>>>],
    [NoFilter EXCEPT !.dateRange = <<[start |-> <<10>>, end |-> <<>>]>>],
    [NoFilter EXCEPT !.dateRange = <<[start |-> <<5>>, end |-> <<10>>]>>],
    [NoFilter EXCEPT !.dateRange = <<[start |-> <<>>, end |-> <<>>]>>],
    [NoFilter EXCEPT !.category = <<"chatbot">>, !.tags = <<<<"css", "ai">>>>] }

Options(limit, threshold, f) ==
  [limit |-> limit, threshold |-> threshold, category |-> f.category,
   source |-> f.source, tags |-> f.tags, dateRange |-> f.dateRange]

\* const { limit = 5, threshold = 0.7, ... } = options
LimitOf(options) ==
  IF options.limit = <<>> THEN DefaultLimit ELSE options.limit[1]

ThresholdOf(options) ==
  IF options.threshold = <<>> THEN DefaultThreshold ELSE options.threshold[1]

\* if (category), if (source): a given, non-empty string
Truthy(opt) == opt # <<>> /\ opt[1] # ""

\* the keys the where clause gets
WhereKeys(options) ==
  (IF Truthy(options.category) THEN {"category"} ELSE {})
  \cup (IF Truthy(options.source) THEN {"source"} ELSE {})
  \cup (IF options.tags # <<>> /\ Len(options.tags[1]) > 0 THEN {"tags"} ELSE {})
  \cup (IF options.dateRange # <<>>
           /\ (options.dateRange[1].start # <<>> \/ options.dateRange[1].end # <<>>)
          THEN {"lastModified"} ELSE {})

BoundISO(b) == IF b = <<>> THEN <<>> ELSE <<ToISOString(b[1])>>

WhereCondition(options, key) ==
  CASE key = "category" -> [op |-> "$eq", s |-> options.category[1]]
    [] key = "source" -> [op |-> "$eq", s |-> options.source[1]]
    [] key = "tags" -> [op |-> "$in", l |-> options.tags[1]]
    [] key = "lastModified" ->
         [op |-> "range", gte |-> BoundISO(options.dateRange[1].start),
          lte |-> BoundISO(options.dateRange[1].end)]

BuildWhere(options) ==
  [key \in WhereKeys(options) |-> WhereCondition(options, key)]

\* nResults: limit
NResults_Default(options) == DefaultLimit

NResults(options) == LimitOf(options)

\* where: Object.keys(whereClause).length > 0 ? whereClause : undefined
BuildRequest(embedding, options) ==
  LET w == BuildWhere(options)
  IN  [queryEmbedding |-> embedding, nResults |-> NResults(options),
       hasWhere |-> DOMAIN w # {}, where |-> w]

(***************************************************************************)
(* The store's side of collection.query: the attribute predicate is        *)
(* evaluated on the stored (flattened) metadata, the nResults nearest      *)
(* matching documents are returned as parallel arrays.  The order of the   *)
(* arrays is left open.                                                    *)
(***************************************************************************)
IsPlainString(v) == v.k = "string" /\ "s" \in DOMAIN v

IsIsoString(v) == v.k = "string" /\ "iso" \in DOMAIN v

\* lexicographic order of two digit strings of the same width
LexLeq(a, b) == a[1] < b[1] \/ (a[1] = b[1] /\ a[2] <= b[2])

CondHolds(c, v) ==
  CASE c.op = "$eq" -> IsPlainString(v) /\ v.s = c.s
    [] c.op = "$in" -> IsPlainString(v) /\ \E i \in 1..Len(c.l) : c.l[i] = v.s
    [] c.op = "range" ->
         /\ IsIsoString(v)
         /\ (c.gte = <<>> \/ LexLeq(c.gte[1], v.iso))
         /\ (c.lte = <<>> \/ LexLeq(v.iso, c.lte[1]))

StoreMatches(where, md) ==
  \A key \in DOMAIN where : key \in DOMAIN md /\ CondHolds(where[key], md[key])

Candidates(docs, req) ==
  {id \in DOMAIN docs : ~req.hasWhere \/ StoreMatches(req.where, docs[id].metadata)}

DistanceTo(docs, req, id) == Distance(req.queryEmbedding, docs[id].embedding)

Rankings(docs, req) ==
  LET cands == Candidates(docs, req)
      n == Min(req.nResults, Cardinality(cands))
  IN  {s \in [1..n -> cands] :
         /\ \A i, j \in 1..n : i # j => s[i] # s[j]
         /\ \A id \in cands \ {s[i] : i \in 1..n} :
              \A i \in 1..n : DistanceTo(docs, req, s[i]) <= DistanceTo(docs, req, id)}

RawResponse(docs, req, s) ==
  [ids |-> s,
   documents |-> [i \in 1..Len(s) |-> docs[s[i]].content],
   metadatas |-> [i \in 1..Len(s) |-> docs[s[i]].metadata],
   distances |-> [i \in 1..Len(s) |-> DistanceTo(docs, req, s[i])]]

NoResponse == [ids |-> <<>>, documents |-> <<>>, metadatas |-> <<>>, distances |-> <<>>]

(***************************************************************************)
(* query: processing of the raw response                                   *)
(***************************************************************************)
\* const similarity = 1 - distance
Similarity(distance) == One - distance

\* if (similarity >= threshold)
PassesThreshold_Strict(similarity, threshold) == similarity > threshold

PassesThreshold_Below(similarity, threshold) == similarity <= threshold

PassesThreshold(similarity, threshold) == similarity >= threshold

RECURSIVE FilterFrom(_, _, _)
FilterFrom(raw, threshold, i) ==
  IF i > Len(raw.distances) THEN <<>>
  ELSE LET similarity == Similarity(raw.distances[i])
       IN  (IF PassesThreshold(similarity, threshold)
              THEN <<[content |-> raw.documents[i], metadata |-> raw.metadatas[i],
                      score |-> similarity, id |-> raw.ids[i]]>>
              ELSE <<>>)
           \o FilterFrom(raw, threshold, i + 1)

\* queryResults.sort((a, b) => b.score - a.score): a stable sort
CompareScore_Ascending(a, b) == a.score - b.score

CompareScore(a, b) == b.score - a.score

RECURSIVE InsertSorted(_, _)
InsertSorted(s, x) ==
  IF Len(s) = 0 THEN <<x>>
  ELSE IF CompareScore(s[1], x) > 0 THEN <<x>> \o s
  ELSE <<s[1]>> \o InsertSorted(Tail(s), x)

RECURSIVE SortResults(_)
SortResults(s) ==
  IF Len(s) = 0 THEN <<>>
  ELSE InsertSorted(SortResults(SubSeq(s, 1, Len(s) - 1)), s[Len(s)])

ProcessResults(raw, threshold) == SortResults(FilterFrom(raw, threshold, 1))

(***************************************************************************)
(* ProjectVectorDB: construction                                           *)
(***************************************************************************)
NoOptions == Options(<<>>, <<>>, NoFilter)

NoRequest == [queryEmbedding |-> 0, nResults |-> 0, hasWhere |-> FALSE, where |-> <<>>]

NoQuery == [text |-> "", options |-> NoOptions, wasInitialized |-> FALSE,
            sent |-> FALSE, request |-> NoRequest, raw |-> NoResponse]

NoRet == [op |-> "none", error |-> "", results |-> <<>>]

\* private collection: Collection | null = null; private isInitialized = false
ClientConstructed ==
  /\ isInitialized = FALSE
  /\ collection = "null"
  /\ docEmbedding = [id \in Ids |-> <<>>]
  /\ stored = <<>>
  /\ ingested = <<>>
  /\ ret = NoRet
  /\ calls = <<>>
  /\ lastQuery = NoQuery

ChunkerIdle ==
  /\ text = <<>>
  /\ chunkSize = 1
  /\ overlap = 0
  /\ chunks = <<>>
  /\ startIndex = 0
  /\ cpc = "idle"

\* no backup has been written
NoFile == [state |-> "missing", exists |-> FALSE, content |-> <<>>, written |-> <<>>]

BackupAbsent == backupFile = NoFile

\* the client instances and the calls that may be in progress at a time
Clients == {1, 2}

Tasks == {1, 2}

\* a client as its constructor leaves it; a call that has not been made
NullHandle == 0

Constructed == [isInitialized |-> FALSE, collection |-> NullHandle]

IdleTask(c) ==
  [client |-> c, op |-> "none", confirm |-> FALSE, pc |-> "idle", resp |-> 0,
   calls |-> 0, error |-> ""]

NothingObserved == [initCreates |-> 0, deletes |-> 0, dropped |-> 0, faulty |-> FALSE]

LifeIdle ==
  /\ clients = [c \in Clients |-> Constructed]
  /\ tasks = [t \in Tasks |-> IdleTask(t)]
  /\ backend = [coll |-> 0, next |-> 1, docs |-> 0]
  /\ lifeObs = NothingObserved
  /\ started = 0

PureIdle ==
  /\ pureArg = <<>>
  /\ pureOut = <<>>
  /\ purePc = "idle"

\* no ingestion script is running
IngestIdle ==
  /\ files = [docs |-> <<>>, memoryBank |-> <<>>, claudeMd |-> <<>>]
  /\ flags = [clear |-> FALSE, statsOnly |-> FALSE]
  /\ documents = <<>>
  /\ ipc = "idle"
  /\ batchStart = 0
  /\ retryIndex = 0
  /\ successCount = 0
  /\ failedBatches = <<>>
  /\ hasEmbedding = {}
  /\ addLog = <<>>
  /\ storedBefore = <<>>
  /\ run = 0

Init ==
  /\ ChunkerIdle
  /\ ClientConstructed
  /\ IngestIdle
  /\ BackupAbsent
  /\ LifeIdle
  /\ PureIdle
  /\ embeddingFunction \in BOOLEAN
  /\ collExists \in BOOLEAN

(***************************************************************************)
(* createChunks, one action per step of its control flow                   *)
(***************************************************************************)
InitChunks ==
  /\ text \in Texts
  /\ chunkSize \in 1..MaxChunkSize
  /\ overlap \in 0..MaxOverlap
  /\ chunks = <<>>
  /\ startIndex = 0
  /\ cpc = "start"
  /\ ClientConstructed
  /\ IngestIdle
  /\ BackupAbsent
  /\ LifeIdle
  /\ PureIdle
  /\ embeddingFunction = FALSE
  /\ collExists = FALSE

\* if (!text || text.length <= chunkSize)
ShortcutApplies_Never(t, cs) == FALSE

ShortcutApplies(t, cs) == Len(t) = 0 \/ Len(t) <= cs

\* if (endIndex >= text.length) break;
ReachedEnd_Never(endIndex, len) == FALSE

ReachedEnd(endIndex, len) == endIndex >= len

\* if (...) return [text]; else enter the loop
CreateChunksEnter ==
  /\ cpc = "start"
  /\ IF ShortcutApplies(text, chunkSize)
       THEN /\ chunks' = <<text>>
            /\ cpc' = "done"
       ELSE /\ chunks' = <<>>
            /\ cpc' = "loop"
  /\ startIndex' = 0
  /\ UNCHANGED <<text, chunkSize, overlap, clientVars, storeVars, obsVars, ingestVars, fileVars,
                 lifeVars, pureVars>>

\* one iteration of while (startIndex < text.length) { ... }
CreateChunksLoop ==
  /\ cpc = "loop"
  /\ Len(chunks) < MaxChunks
  /\ IF startIndex < Len(text)
       THEN LET endIndex == Min(startIndex + chunkSize, Len(text))
            IN  /\ chunks' = Append(chunks, Slice(text, startIndex, endIndex))
                /\ IF ReachedEnd(endIndex, Len(text))
                     THEN /\ cpc' = "done"
                          /\ startIndex' = startIndex
                     ELSE /\ cpc' = "loop"
                          /\ startIndex' = NextStart(startIndex, chunkSize, overlap)
       ELSE /\ cpc' = "done"
            /\ UNCHANGED <<chunks, startIndex>>
  /\ UNCHANGED <<text, chunkSize, overlap, clientVars, storeVars, obsVars, ingestVars, fileVars,
                 lifeVars, pureVars>>

NextChunks == CreateChunksEnter \/ CreateChunksLoop

SpecChunks == InitChunks /\ [][NextChunks]_vars

(***************************************************************************)
(* initialize / ensureInitialized.  `up` tells whether the store answers   *)
(* the calls of this invocation.  The result is the client's fields, the   *)
(* store's collection, the error thrown ("" for none) and the calls made.  *)
(***************************************************************************)
Unchanged(init, coll, exists) ==
  [isInitialized |-> init, collection |-> coll, collExists |-> exists,
   error |-> "", calls |-> <<>>]

InitializeResult(init, coll, exists, up) ==
  IF init THEN Unchanged(init, coll, exists)
  ELSE IF up /\ exists
    THEN [isInitialized |-> TRUE, collection |-> "handle", collExists |-> TRUE,
          error |-> "", calls |-> <<"getCollection">>]
  ELSE IF up
    THEN [isInitialized |-> TRUE, collection |-> "handle", collExists |-> TRUE,
          error |-> "", calls |-> <<"getCollection", "createCollection">>]
  ELSE [isInitialized |-> FALSE, collection |-> coll, collExists |-> exists,
        error |-> "InitFailed", calls |-> <<"getCollection", "createCollection">>]

EnsureInitialized_Skip(init, coll, exists, up) == Unchanged(init, coll, exists)

EnsureInitialized(init, coll, exists, up) ==
  IF ~init THEN InitializeResult(init, coll, exists, up)
  ELSE Unchanged(init, coll, exists)

\* if (!this.embeddingFunction) throw ...
EmbeddingConfigured_Unchecked(ef) == TRUE

EmbeddingConfigured(ef) == ef

Initialize(up) ==
  /\ cpc = "idle"
  /\ ret.op = "none"
  /\ LET e == InitializeResult(isInitialized, collection, collExists, up)
     IN  /\ isInitialized' = e.isInitialized
         /\ collection' = e.collection
         /\ collExists' = e.collExists
         /\ ret' = [op |-> "initialize", error |-> e.error, results |-> <<>>]
         /\ calls' = e.calls
  /\ UNCHANGED <<chunkVars, lifeVars, pureVars, ingestVars, fileVars, embeddingFunction, docEmbedding, stored, lastQuery, ingested>>

(***************************************************************************)
(* query(query, options), the options being {limit, threshold, ...filter}. *)
(* `fail` names the first external call of this invocation that fails:     *)
(* "init" (the store during initialization), "embed" (the embedding        *)
(* generator), "query" (collection.query), or "none".                      *)
(***************************************************************************)
Query(q, limit, threshold, filter, fail) ==
  /\ cpc = "idle"
  /\ ret.op = "none"
  /\ fail = "init" => ~isInitialized
  /\ LET options == Options(limit, threshold, filter)
         e == EnsureInitialized(isInitialized, collection, collExists, fail # "init")
         args == [NoQuery EXCEPT !.text = q, !.options = options,
                                 !.wasInitialized = isInitialized]
         req == BuildRequest(Generate(q), options)
     IN  /\ isInitialized' = e.isInitialized
         /\ collection' = e.collection
         /\ collExists' = e.collExists
         /\ IF e.error # ""
              THEN /\ ret' = [op |-> "query", error |-> e.error, results |-> <<>>]
                   /\ calls' = e.calls
                   /\ lastQuery' = args
            ELSE IF e.collection = "null"
              THEN /\ ret' = [op |-> "query", error |-> "NotInitialized", results |-> <<>>]
                   /\ calls' = e.calls
                   /\ lastQuery' = args
            ELSE IF ~EmbeddingConfigured(embeddingFunction)
              THEN /\ ret' = [op |-> "query", error |-> "EmbeddingNotConfigured",
                              results |-> <<>>]
                   /\ calls' = e.calls
                   /\ lastQuery' = args
            ELSE IF fail = "embed"
              THEN /\ ret' = [op |-> "query", error |-> "EmbeddingFailed", results |-> <<>>]
                   /\ calls' = e.calls \o <<"generate">>
                   /\ lastQuery' = args
            ELSE IF fail = "query"
              THEN /\ ret' = [op |-> "query", error |-> "StoreError", results |-> <<>>]
                   /\ calls' = e.calls \o <<"generate", "query">>
                   /\ lastQuery' = [args EXCEPT !.sent = TRUE, !.request = req]
            ELSE \E s \in Rankings(stored, req) :
                   LET raw == RawResponse(stored, req, s)
                   IN  /\ ret' = [op |-> "query", error |-> "",
                                  results |-> ProcessResults(raw, ThresholdOf(options))]
                       /\ calls' = e.calls \o <<"generate", "query">>
                       /\ lastQuery' = [args EXCEPT !.sent = TRUE, !.request = req,
                                                    !.raw = raw]
  /\ UNCHANGED <<chunkVars, lifeVars, pureVars, ingestVars, fileVars, embeddingFunction, docEmbedding, stored, ingested>>

(***************************************************************************)
(* addDocuments(documents).  The documents are the caller's objects of the *)
(* ids in `batch`, in corpus order; `fail` is "init", "embed" (generate    *)
(* fails for the failAt-th document still to embed), "add" or "none".      *)
(***************************************************************************)
BatchOf(S) == SelectSeq(IdOrder, LAMBDA id : id \in S)

\* collection.add({ids, documents, embeddings, metadatas}): upsert by id
StoreAdd(docs, batch, emb) ==
  [id \in DOMAIN docs \cup {batch[i] : i \in 1..Len(batch)} |->
     IF \E i \in 1..Len(batch) : batch[i] = id
       THEN [content |-> Corpus[id].content, embedding |-> emb[id][1],
             metadata |-> sanitizeMetadata(Corpus[id].metadata)]
       ELSE docs[id]]

\* if (documents.length === 0) return;
NothingToAdd_Never(batch) == FALSE

NothingToAdd(batch) == Len(batch) = 0

AddDocuments(S, fail, failAt) ==
  /\ cpc = "idle"
  /\ ret.op = "none"
  /\ fail = "init" => ~isInitialized
  /\ LET e == EnsureInitialized(isInitialized, collection, collExists, fail # "init")
         batch == BatchOf(S)
         docsToEmbed == SelectSeq(batch, LAMBDA id : docEmbedding[id] = <<>>)
         embedded(n) == [id \in Ids |->
                           IF \E i \in 1..n : docsToEmbed[i] = id
                             THEN <<Generate(Corpus[id].content)>>
                             ELSE docEmbedding[id]]
         generated(n) == [i \in 1..n |-> "generate"]
         all == Len(docsToEmbed)
     IN  /\ isInitialized' = e.isInitialized
         /\ collection' = e.collection
         /\ collExists' = e.collExists
         /\ failAt \in 1..Max(all, 1)
         /\ fail # "embed" => failAt = 1
         /\ IF e.error # ""
              THEN /\ ret' = [op |-> "addDocuments", error |-> e.error, results |-> <<>>]
                   /\ calls' = e.calls
                   /\ UNCHANGED <<docEmbedding, stored, ingested>>
            ELSE IF e.collection = "null"
              THEN /\ ret' = [op |-> "addDocuments", error |-> "NotInitialized",
                              results |-> <<>>]
                   /\ calls' = e.calls
                   /\ UNCHANGED <<docEmbedding, stored, ingested>>
            ELSE IF NothingToAdd(batch)
              THEN /\ ret' = [op |-> "addDocuments", error |-> "", results |-> <<>>]
                   /\ calls' = e.calls
                   /\ UNCHANGED <<docEmbedding, stored, ingested>>
            ELSE IF all > 0 /\ ~EmbeddingConfigured(embeddingFunction)
              THEN /\ ret' = [op |-> "addDocuments", error |-> "EmbeddingsRequired",
                              results |-> <<>>]
                   /\ calls' = e.calls
                   /\ UNCHANGED <<docEmbedding, stored, ingested>>
            ELSE IF all > 0 /\ fail = "embed"
              THEN /\ ret' = [op |-> "addDocuments", error |-> "EmbeddingFailed",
                              results |-> <<>>]
                   /\ calls' = e.calls \o generated(failAt)
                   /\ docEmbedding' = embedded(failAt - 1)
                   /\ UNCHANGED <<stored, ingested>>
            ELSE IF fail = "add"
              THEN /\ ret' = [op |-> "addDocuments", error |-> "StoreError",
                              results |-> <<>>]
                   /\ calls' = e.calls \o generated(all) \o <<"add">>
                   /\ docEmbedding' = embedded(all)
                   /\ UNCHANGED <<stored, ingested>>
            ELSE /\ ret' = [op |-> "addDocuments", error |-> "", results |-> <<>>]
                 /\ calls' = e.calls \o generated(all) \o <<"add">>
                 /\ docEmbedding' = embedded(all)
                 /\ stored' = StoreAdd(stored, batch, embedded(all))
                 /\ ingested' = [id \in DOMAIN ingested \cup S |->
                                   IF id \in S THEN Corpus[id].metadata ELSE ingested[id]]
  /\ UNCHANGED <<chunkVars, lifeVars, pureVars, ingestVars, fileVars, embeddingFunction, lastQuery>>

\* the caller takes the outcome of the call it awaited and goes on
TakeResult ==
  /\ cpc = "idle"
  /\ ret.op # "none"
  /\ ret' = NoRet
  /\ calls' = <<>>
  /\ lastQuery' = NoQuery
  /\ UNCHANGED <<chunkVars, lifeVars, pureVars, ingestVars, fileVars, clientVars, storeVars, ingested>>

Next ==
  \/ TakeResult
  \/ \E up \in BOOLEAN : Initialize(up)
  \/ \E q \in QueryTexts, l \in Limits, t \in Thresholds, f \in Filters,
        fail \in {"none", "init", "embed", "query"} :
       Query(q, l, t, f, fail)
  \/ \E S \in SUBSET Ids, fail \in {"none", "init", "embed", "add"}, failAt \in 1..Cardinality(Ids) :
       AddDocuments(S, fail, failAt)

Spec == Init /\ [][Next]_vars

(***************************************************************************)
(* The ingestion script: chunking, identifiers and the document list       *)
(***************************************************************************)
\* CHUNK_SIZE = 800 and CHUNK_OVERLAP = 200 characters, in units of 200
CHUNK_SIZE == 4
CHUNK_OVERLAP == 1
\* const batchSize = 50, scaled to the document lists of the model
BatchSize == 2
\* runs of the script over the same files
MaxRuns == 2

\* createChunks as the function its steps compute
RECURSIVE ChunksFrom(_, _, _, _, _)
ChunksFrom(t, cs, ov, start, acc) ==
  IF Len(acc) >= MaxChunks \/ ~(start < Len(t)) THEN acc
  ELSE LET endIndex == Min(start + cs, Len(t))
           next == Append(acc, Slice(t, start, endIndex))
       IN  IF ReachedEnd(endIndex, Len(t)) THEN next
           ELSE ChunksFrom(t, cs, ov, NextStart(start, cs, ov), next)

createChunks(t, cs, ov) ==
  IF ShortcutApplies(t, cs) THEN <<t>> ELSE ChunksFrom(t, cs, ov, 0, <<>>)

\* String.prototype.trim on texts whose only white space is " "
RECURSIVE TrimStart(_)
TrimStart(t) == IF Len(t) > 0 /\ t[1] = " " THEN TrimStart(Tail(t)) ELSE t

RECURSIVE TrimEnd(_)
TrimEnd(t) ==
  IF Len(t) > 0 /\ t[Len(t)] = " " THEN TrimEnd(SubSeq(t, 1, Len(t) - 1)) ELSE t

Trim(t) == TrimEnd(TrimStart(t))

\* the files of the model hold no control character and no broken escape:
\* of sanitizeContent's steps only the final trim() changes them
sanitizeContent(t) == IF Len(t) = 0 THEN <<>> ELSE Trim(t)

\* A document id is a string.  A literal string is carried as [plain |-> s];
\* the first 16 hex digits of the SHA-256 digest of s as [sha256hex16 |-> s]:
\* the digest is not computed, it is taken to be injective on the inputs of
\* the model and is never one of the literal ids.
PlainId(s) == [plain |-> s]

Sha256Hex16(s) == [sha256hex16 |-> s]

generateChunkId_PerRun(filePath, chunkIndex) ==
  Sha256Hex16(filePath \o "-" \o ToString(chunkIndex) \o "-" \o ToString(run))

generateChunkId(filePath, chunkIndex) ==
  Sha256Hex16(filePath \o "-" \o ToString(chunkIndex))

\* id: `memory-bank-${index}`
MemoryBankId_Hashed(index) == generateChunkId("memory-bank/CURRENT.md", index)

MemoryBankId(index) == PlainId("memory-bank-" \o ToString(index))

\* id: `claude-md-${index}`
ClaudeMdId(index) == PlainId("claude-md-" \o ToString(index))

\* process.cwd(), and path.relative(process.cwd(), filePath) below it
Cwd == "/repo/"

\* The files a run reads.  docs is the result of glob(docs/**/*.md), each file
\* with its absolute path, its path relative to the working directory and its
\* body (no front matter); memoryBank and claudeMd are <<>> when the file does
\* not exist and <<content>> when it does.
DocsFileSets ==
  {<<[path |-> Cwd \o "docs/a.md", rel |-> "docs/a.md", body |-> b]>> \o rest :
     b \in {<<" ">>, <<"a", "b", "a", "a", "b", " ">>},
     rest \in {<<>>, <<[path |-> Cwd \o "docs/sub/b.md", rel |-> "docs/sub/b.md",
                        body |-> <<"b", "a">>]>>}}

FileSystems ==
  [docs : DocsFileSets,
   memoryBank : {<<>>, <<<<"b", "b", " ">>>>},
   claudeMd : {<<>>, <<<<"a", "a">>>>}]

\* the metadata fields that identify a chunk (category, title, lastModified
\* and priority are attached alike and do not enter the control flow); the
\* chunks of docs/ carry in addition the tags of the front matter, here none
ChunkMetadata(source, filePath, index, total) ==
  [source |-> Str(source), filePath |-> Str(filePath),
   chunkIndex |-> Num(index), totalChunks |-> Num(total)]

\* chunks.forEach((chunk, index) => documents.push({id, content, metadata}))
DocsChunks(file) ==
  LET cks == createChunks(sanitizeContent(file.body), CHUNK_SIZE, CHUNK_OVERLAP)
  IN  [x \in 1..Len(cks) |->
         [id |-> generateChunkId(file.path, x - 1), content |-> cks[x],
          metadata |-> [source |-> Str("docs"), filePath |-> Str(file.rel),
                        chunkIndex |-> Num(x - 1), totalChunks |-> Num(Len(cks)),
                        tags |-> List(<<>>)]]]

\* for (const filePath of files): a file with a blank body is skipped
RECURSIVE loadDocuments(_)
loadDocuments(fs) ==
  IF Len(fs) = 0 THEN <<>>
  ELSE (IF Len(Trim(Head(fs).body)) = 0 THEN <<>> ELSE DocsChunks(Head(fs)))
         \o loadDocuments(Tail(fs))

MemoryBankChunks(content) ==
  LET cks == createChunks(sanitizeContent(content), CHUNK_SIZE, CHUNK_OVERLAP)
  IN  [x \in 1..Len(cks) |->
         [id |-> MemoryBankId(x - 1), content |-> cks[x],
          metadata |-> ChunkMetadata("memory-bank", "memory-bank/CURRENT.md",
                                     x - 1, Len(cks))]]

ClaudeMdChunks(content) ==
  LET cks == createChunks(sanitizeContent(content), CHUNK_SIZE, CHUNK_OVERLAP)
  IN  [x \in 1..Len(cks) |->
         [id |-> ClaudeMdId(x - 1), content |-> cks[x],
          metadata |-> ChunkMetadata("claude-md", "CLAUDE.md", x - 1, Len(cks))]]

\* the list ingestDocs builds: nothing when docs/ gives no document, otherwise
\* the documents of docs/, then of the memory bank, then of CLAUDE.md
AllDocuments(f) ==
  IF Len(loadDocuments(f.docs)) = 0 THEN <<>>
  ELSE loadDocuments(f.docs)
         \o (IF Len(f.memoryBank) = 0 THEN <<>> ELSE MemoryBankChunks(f.memoryBank[1]))
         \o (IF Len(f.claudeMd) = 0 THEN <<>> ELSE ClaudeMdChunks(f.claudeMd[1]))

(***************************************************************************)
(* ingestDocs(), one action per awaited step.  The client it constructs is *)
(* the ProjectVectorDB above; a run is a fresh process and a fresh client. *)
(***************************************************************************)
\* the embedding of a chunk: some vector determined by its text
ChunkEmbedding(content) == Len(content)

\* collection.add: upsert by id of the records handed over, the last of two
\* records with one id winning
StorePut(docs, records) ==
  LET ids == {records[x].id : x \in 1..Len(records)}
      last(id) == records[CHOOSE x \in 1..Len(records) :
                            /\ records[x].id = id
                            /\ \A y \in (x + 1)..Len(records) : records[y].id # id]
  IN  [id \in DOMAIN docs \cup ids |-> IF id \in ids THEN last(id).record ELSE docs[id]]

\* deleteCollection then createCollection; `fail` is the call that fails
DeleteAndCreate(exists, docs, fail) ==
  IF fail = "delete"
    THEN [collExists |-> exists, stored |-> docs, error |-> "StoreError",
          calls |-> <<"deleteCollection">>]
  ELSE IF fail = "create"
    THEN [collExists |-> FALSE, stored |-> <<>>, error |-> "StoreError",
          calls |-> <<"deleteCollection", "createCollection">>]
  ELSE [collExists |-> TRUE, stored |-> <<>>, error |-> "",
        calls |-> <<"deleteCollection", "createCollection">>]

\* documents.slice(i, i + batchSize), as indices into `documents`
BatchSlice(i) == [x \in 1..(Min(i + BatchSize, Len(documents)) - i) |-> i + x]

\* successCount += batch.length
CountBatch_One(count, batch) == count + 1

CountBatch(count, batch) == count + Len(batch)

\* for (let j = 0; j < batch.length; j++)
RetryContinues_FirstOnly(j, batch) == j < 1

RetryContinues(j, batch) == j < Len(batch)

\* vectorDB.addDocuments(batch) on the documents of the script: the documents
\* without an embedding get one, in order, then one collection.add stores all.
\* `fail` is "embed" (generate fails for the failAt-th document to embed),
\* "add" or "none".
IngestAdd(batch, fail, failAt) ==
  LET docsToEmbed == SelectSeq(batch, LAMBDA d : d \notin hasEmbedding)
      with(n) == hasEmbedding \cup {docsToEmbed[x] : x \in 1..n}
      records == [x \in 1..Len(batch) |->
                    [id |-> documents[batch[x]].id,
                     record |-> [content |-> documents[batch[x]].content,
                                 embedding |-> ChunkEmbedding(documents[batch[x]].content),
                                 metadata |-> sanitizeMetadata(documents[batch[x]].metadata)]]]
  IN  IF collection = "null"
        THEN [ok |-> FALSE, hasEmbedding |-> hasEmbedding, stored |-> stored]
      ELSE IF Len(docsToEmbed) > 0 /\ ~EmbeddingConfigured(embeddingFunction)
        THEN [ok |-> FALSE, hasEmbedding |-> hasEmbedding, stored |-> stored]
      ELSE IF Len(docsToEmbed) > 0 /\ fail = "embed"
        THEN [ok |-> FALSE, hasEmbedding |-> with(failAt - 1), stored |-> stored]
      ELSE IF fail = "add"
        THEN [ok |-> FALSE, hasEmbedding |-> with(Len(docsToEmbed)), stored |-> stored]
      ELSE [ok |-> TRUE, hasEmbedding |-> with(Len(docsToEmbed)),
            stored |-> StorePut(stored, records)]

\* the failures an addDocuments call on `batch` can meet
AddFailures(batch, fail, failAt) ==
  LET toEmbed == Cardinality({x \in 1..Len(batch) : batch[x] \notin hasEmbedding})
  IN  /\ fail \in {"none", "embed", "add"}
      /\ failAt \in 1..Max(toEmbed, 1)
      /\ fail = "embed" => toEmbed > 0
      /\ fail # "embed" => failAt = 1

InitIngest ==
  /\ ChunkerIdle
  /\ ClientConstructed
  /\ BackupAbsent
  /\ LifeIdle
  /\ PureIdle
  /\ embeddingFunction = FALSE
  /\ collExists \in BOOLEAN
  /\ files \in FileSystems
  /\ flags \in [clear : BOOLEAN, statsOnly : BOOLEAN]
  /\ documents = <<>>
  /\ ipc = "connect"
  /\ batchStart = 0
  /\ retryIndex = 0
  /\ successCount = 0
  /\ failedBatches = <<>>
  /\ hasEmbedding = {}
  /\ addLog = <<>>
  /\ storedBefore = <<>>
  /\ run = 1

\* new GoogleAIEmbeddingFunction(); new ProjectVectorDB(...); initialize().
\* `key` tells whether the API key is set, `up` whether the store answers.
IngestConnect(key, up) ==
  /\ ipc = "connect"
  /\ LET e == InitializeResult(isInitialized, collection, collExists, up)
     IN  IF ~key
           THEN /\ ipc' = "aborted"
                /\ UNCHANGED <<isInitialized, collection, embeddingFunction, collExists>>
         ELSE /\ embeddingFunction' = TRUE
              /\ isInitialized' = e.isInitialized
              /\ collection' = e.collection
              /\ collExists' = e.collExists
              /\ ipc' = IF e.error # "" THEN "aborted"
                        ELSE IF flags.statsOnly THEN "stats"
                        ELSE IF flags.clear THEN "clear"
                        ELSE "load"
  /\ UNCHANGED <<chunkVars, lifeVars, pureVars, fileVars, docEmbedding, stored, obsVars, files, flags, documents,
                 batchStart, retryIndex, successCount, failedBatches, hasEmbedding,
                 addLog, storedBefore, run>>

\* if (flags.statsOnly) { getStats(); print; return }
IngestStatsOnly(ok) ==
  /\ ipc = "stats"
  /\ ipc' = IF ok THEN "returned" ELSE "aborted"
  /\ UNCHANGED <<chunkVars, lifeVars, pureVars, fileVars, clientVars, storeVars, obsVars, files, flags, documents,
                 batchStart, retryIndex, successCount, failedBatches, hasEmbedding,
                 addLog, storedBefore, run>>

\* if (flags.clear) await vectorDB.clearCollection(true)
IngestClear(fail) ==
  /\ ipc = "clear"
  /\ LET c == DeleteAndCreate(collExists, stored, fail)
     IN  /\ collExists' = c.collExists
         /\ stored' = c.stored
         /\ ipc' = IF c.error # "" THEN "aborted" ELSE "load"
  /\ UNCHANGED <<chunkVars, lifeVars, pureVars, fileVars, clientVars, obsVars, files, flags, documents,
                 batchStart, retryIndex, successCount, failedBatches, hasEmbedding,
                 addLog, storedBefore, run>>

\* loadDocuments(docs/), return when it gives nothing, else memory bank, CLAUDE.md
IngestLoad ==
  /\ ipc = "load"
  /\ documents' = AllDocuments(files)
  /\ ipc' = IF Len(AllDocuments(files)) = 0 THEN "returned" ELSE "batch"
  /\ UNCHANGED <<chunkVars, lifeVars, pureVars, fileVars, clientVars, storeVars, obsVars, files, flags,
                 batchStart, retryIndex, successCount, failedBatches, hasEmbedding,
                 addLog, storedBefore, run>>

\* one iteration of the batch loop up to the outcome of addDocuments(batch)
IngestBatch(fail, failAt) ==
  /\ ipc = "batch"
  /\ AddFailures(BatchSlice(batchStart), fail, failAt)
  /\ LET batch == BatchSlice(batchStart)
         r == IngestAdd(batch, fail, failAt)
     IN  /\ hasEmbedding' = r.hasEmbedding
         /\ stored' = r.stored
         /\ addLog' = Append(addLog, [docs |-> batch, ok |-> r.ok, retry |-> FALSE])
         /\ IF r.ok
              THEN /\ successCount' = CountBatch(successCount, batch)
                   /\ batchStart' = batchStart + BatchSize
                   /\ ipc' = IF batchStart + BatchSize < Len(documents)
                               THEN "batch" ELSE "final"
                   /\ UNCHANGED <<failedBatches, retryIndex>>
              ELSE /\ failedBatches' = Append(failedBatches, (batchStart \div BatchSize) + 1)
                   /\ retryIndex' = 0
                   /\ ipc' = "retry"
                   /\ UNCHANGED <<successCount, batchStart>>
  /\ UNCHANGED <<chunkVars, lifeVars, pureVars, fileVars, clientVars, collExists, obsVars, files, flags, documents,
                 storedBefore, run>>

\* one iteration of the per-document loop: addDocuments([batch[j]])
IngestRetry(fail, failAt) ==
  /\ ipc = "retry"
  /\ AddFailures(<<BatchSlice(batchStart)[retryIndex + 1]>>, fail, failAt)
  /\ LET batch == BatchSlice(batchStart)
         r == IngestAdd(<<batch[retryIndex + 1]>>, fail, failAt)
     IN  /\ hasEmbedding' = r.hasEmbedding
         /\ stored' = r.stored
         /\ addLog' = Append(addLog, [docs |-> <<batch[retryIndex + 1]>>, ok |-> r.ok,
                                      retry |-> TRUE])
         /\ successCount' = IF r.ok THEN successCount + 1 ELSE successCount
         /\ retryIndex' = retryIndex + 1
         /\ IF RetryContinues(retryIndex + 1, batch)
              THEN /\ ipc' = "retry"
                   /\ batchStart' = batchStart
              ELSE /\ batchStart' = batchStart + BatchSize
                   /\ ipc' = IF batchStart + BatchSize < Len(documents)
                               THEN "batch" ELSE "final"
  /\ UNCHANGED <<chunkVars, lifeVars, pureVars, fileVars, clientVars, collExists, obsVars, files, flags, documents,
                 failedBatches, storedBefore, run>>

\* getStats() and the sample query after the loop; either may throw
IngestFinal(ok) ==
  /\ ipc = "final"
  /\ ipc' = IF ok THEN "finished" ELSE "aborted"
  /\ UNCHANGED <<chunkVars, lifeVars, pureVars, fileVars, clientVars, storeVars, obsVars, files, flags, documents,
                 batchStart, retryIndex, successCount, failedBatches, hasEmbedding,
                 addLog, storedBefore, run>>

\* the script is started again over the same files
IngestAgain(clear, statsOnly) ==
  /\ ipc \in {"finished", "returned", "aborted"}
  /\ run < MaxRuns
  /\ run' = run + 1
  /\ flags' = [clear |-> clear, statsOnly |-> statsOnly]
  /\ isInitialized' = FALSE
  /\ collection' = "null"
  /\ embeddingFunction' = FALSE
  /\ documents' = <<>>
  /\ ipc' = "connect"
  /\ batchStart' = 0
  /\ retryIndex' = 0
  /\ successCount' = 0
  /\ failedBatches' = <<>>
  /\ hasEmbedding' = {}
  /\ addLog' = <<>>
  /\ storedBefore' = stored
  /\ UNCHANGED <<chunkVars, lifeVars, pureVars, fileVars, docEmbedding, storeVars, obsVars, files>>

NextIngest ==
  \/ \E key \in BOOLEAN, up \in BOOLEAN : IngestConnect(key, up)
  \/ \E ok \in BOOLEAN : IngestStatsOnly(ok)
  \/ \E fail \in {"none", "delete", "create"} : IngestClear(fail)
  \/ IngestLoad
  \/ \E fail \in {"none", "embed", "add"}, failAt \in 1..BatchSize : IngestBatch(fail, failAt)
  \/ \E fail \in {"none", "embed", "add"}, failAt \in 1..BatchSize : IngestRetry(fail, failAt)
  \/ \E ok \in BOOLEAN : IngestFinal(ok)
  \/ \E clear \in BOOLEAN, statsOnly \in BOOLEAN : IngestAgain(clear, statsOnly)

SpecIngest == InitIngest /\ [][NextIngest]_vars

(***************************************************************************)
(* JSON text.  A text is a sequence of tokens: punctuation, the literal    *)
(* null, a string literal (with the string's own payload: an escaped line  *)
(* feed stays inside its literal), a number, and outside of literals the   *)
(* line feed "nl" and the blank "sp".                                      *)
(***************************************************************************)
Tok(c) == [t |-> c]

StrTok(s) == [t |-> "string", s |-> s]

IsoTok(i) == [t |-> "string", iso |-> i]

NumTok(n) == [t |-> "number", n |-> n]

\* an object read from or written to JSON, with its own properties
JObject(members) == [k |-> "object", members |-> members]

\* the property names of the model in the order the objects are built with
KeyOrder ==
  <<"version", "exportDate", "stats", "totalDocuments", "sources",
    "id", "content", "metadata", "embedding",
    "source", "category", "lastModified", "priority", "tags", "frontmatter", "title",
    "docs", "memory-bank">>

KeysOf(f) == SelectSeq(KeyOrder, LAMBDA key : key \in DOMAIN f)

\* JSON.stringify(value)
RECURSIVE StringifyElements(_)
StringifyElements(l) ==
  IF Len(l) = 0 THEN <<>>
  ELSE IF Len(l) = 1 THEN <<StrTok(l[1])>>
  ELSE <<StrTok(l[1]), Tok(",")>> \o StringifyElements(Tail(l))

NumberTokens_Quoted(n) == <<StrTok(ToString(n))>>

NumberTokens(n) == <<NumTok(n)>>

RECURSIVE StringifyValue(_)
RECURSIVE StringifyMembers(_, _)
StringifyValue(v) ==
  IF v.k = "string"
    THEN (IF "iso" \in DOMAIN v THEN <<IsoTok(v.iso)>> ELSE <<StrTok(v.s)>>)
  ELSE IF v.k = "number" THEN NumberTokens(v.n)
  ELSE IF v.k = "date" THEN <<IsoTok(ToISOString(v.d))>>
  ELSE IF v.k = "array" THEN <<Tok("[")>> \o StringifyElements(v.l) \o <<Tok("]")>>
  ELSE IF v.k = "object" /\ "members" \in DOMAIN v
    THEN <<Tok("{")>> \o StringifyMembers(v.members, KeysOf(v.members)) \o <<Tok("}")>>
  ELSE IF v.k = "object" THEN <<Tok("{"), Tok("}")>>
  ELSE <<Tok("null")>>

StringifyMembers(f, keys) ==
  IF Len(keys) = 0 THEN <<>>
  ELSE <<StrTok(keys[1]), Tok(":")>> \o StringifyValue(f[keys[1]])
         \o (IF Len(keys) > 1 THEN <<Tok(",")>> ELSE <<>>)
         \o StringifyMembers(f, Tail(keys))

\* JSON.parse(text): [ok, v, next], ok FALSE standing for the SyntaxError
ParseError == [ok |-> FALSE, v |-> Null, next |-> 0]

Parsed(v, next) == [ok |-> TRUE, v |-> v, next |-> next]

IsTok(toks, i, c) == i <= Len(toks) /\ toks[i].t = c

\* the object of the name/value pairs read, a later pair of a name winning
ObjectOf(pairs) ==
  JObject([key \in {pairs[x].key : x \in 1..Len(pairs)} |->
             pairs[CHOOSE x \in 1..Len(pairs) :
                     /\ pairs[x].key = key
                     /\ \A y \in (x + 1)..Len(pairs) : pairs[y].key # key].v])

RECURSIVE ParseElements(_, _, _)
ParseElements(toks, i, acc) ==
  IF ~(IsTok(toks, i, "string") /\ "s" \in DOMAIN toks[i]) THEN ParseError
  ELSE IF IsTok(toks, i + 1, ",") THEN ParseElements(toks, i + 2, Append(acc, toks[i].s))
  ELSE IF IsTok(toks, i + 1, "]") THEN Parsed(List(Append(acc, toks[i].s)), i + 2)
  ELSE ParseError

RECURSIVE ParseValue(_, _)
RECURSIVE ParseMembers(_, _, _)
ParseValue(toks, i) ==
  IF i > Len(toks) THEN ParseError
  ELSE IF toks[i].t = "string"
    THEN Parsed(IF "iso" \in DOMAIN toks[i] THEN Iso(toks[i].iso) ELSE Str(toks[i].s), i + 1)
  ELSE IF toks[i].t = "number" THEN Parsed(Num(toks[i].n), i + 1)
  ELSE IF toks[i].t = "null" THEN Parsed(Null, i + 1)
  ELSE IF toks[i].t = "["
    THEN (IF IsTok(toks, i + 1, "]") THEN Parsed(List(<<>>), i + 2)
          ELSE ParseElements(toks, i + 1, <<>>))
  ELSE IF toks[i].t = "{"
    THEN (IF IsTok(toks, i + 1, "}") THEN Parsed(JObject(<<>>), i + 2)
          ELSE ParseMembers(toks, i + 1, <<>>))
  ELSE ParseError

ParseMembers(toks, i, acc) ==
  IF ~(IsTok(toks, i, "string") /\ "s" \in DOMAIN toks[i] /\ IsTok(toks, i + 1, ":"))
    THEN ParseError
  ELSE LET r == ParseValue(toks, i + 2)
           pairs == Append(acc, [key |-> toks[i].s, v |-> r.v])
       IN  IF ~r.ok THEN ParseError
           ELSE IF IsTok(toks, r.next, ",") THEN ParseMembers(toks, r.next + 1, pairs)
           ELSE IF IsTok(toks, r.next, "}") THEN Parsed(ObjectOf(pairs), r.next + 1)
           ELSE ParseError

\* leading and trailing blanks are skipped, nothing may follow the value
NotBlank(line) == SelectSeq(line, LAMBDA tk : tk.t # "sp")

JSONParse(line) ==
  LET toks == NotBlank(line)
      r == ParseValue(toks, 1)
  IN  IF r.ok /\ r.next = Len(toks) + 1 THEN r ELSE ParseError

\* Array.prototype.join('\n') of texts and String.prototype.split('\n')
RECURSIVE JoinLines(_)
JoinLines(lines) ==
  IF Len(lines) = 0 THEN <<>>
  ELSE IF Len(lines) = 1 THEN lines[1]
  ELSE lines[1] \o <<Tok("nl")>> \o JoinLines(Tail(lines))

LineFeeds(toks) == {i \in 1..Len(toks) : toks[i].t = "nl"}

\* the position of the n-th of the line feeds; 0 and len + 1 stand for the
\* two ends of the text
LineFeed(feeds, len, n) ==
  IF n = 0 THEN 0
  ELSE IF n > Cardinality(feeds) THEN len + 1
  ELSE CHOOSE i \in feeds : Cardinality({j \in feeds : j < i}) = n - 1

SplitLines(toks) ==
  LET feeds == LineFeeds(toks)
      at == [n \in 0..(Cardinality(feeds) + 1) |-> LineFeed(feeds, Len(toks), n)]
  IN  [n \in 1..(Cardinality(feeds) + 1) |-> SubSeq(toks, at[n - 1] + 1, at[n] - 1)]

\* line => line.trim(): a line is kept when something but blanks is on it
HasText(line) == Len(NotBlank(line)) > 0

(***************************************************************************)
(* exportBackup / importBackup of the client, and what else happens to the *)
(* backup file between two calls                                           *)
(***************************************************************************)
\* const batchSize = 100 of importBackup, scaled to the corpus of the model
ImportBatchSize == 2

\* new Date().toISOString() at the time of the export
ExportDate == Iso(<<2, 0>>)

\* the orders in which collection.get may return the documents of a set
Orderings(S) ==
  {o \in [1..Cardinality(S) -> S] : \A x, y \in 1..Cardinality(S) : o[x] = o[y] => x = y}

\* getAllDocuments(): {id, content, metadata, embedding} per document returned
GetAllDocuments(docs, order) ==
  [x \in 1..Len(order) |->
     [id |-> order[x], content |-> docs[order[x]].content,
      metadata |-> docs[order[x]].metadata, embedding |-> docs[order[x]].embedding]]

\* getStats(): the document count and the number of documents per source
\* (categories, averageChunkSize and lastUpdated are computed alike)
WithSource(docs, s) ==
  {id \in DOMAIN docs : /\ "source" \in DOMAIN docs[id].metadata
                        /\ docs[id].metadata.source.s = s}

GetStats(docs) ==
  [totalDocuments |-> Num(Cardinality(DOMAIN docs)),
   sources |-> JObject([s \in {x \in {"docs", "memory-bank"} : WithSource(docs, x) # {}} |->
                          Num(Cardinality(WithSource(docs, s)))])]

\* JSON.stringify({id, content, metadata}) of one document
DocumentLine_WithEmbedding(doc) ==
  StringifyValue(JObject([id |-> Str(doc.id), content |-> Str(doc.content),
                          metadata |-> JObject(doc.metadata),
                          embedding |-> Num(doc.embedding)]))

DocumentLine(doc) ==
  StringifyValue(JObject([id |-> Str(doc.id), content |-> Str(doc.content),
                          metadata |-> JObject(doc.metadata)]))

\* JSON.stringify({version, exportDate, stats})
HeaderLine(stats) ==
  StringifyValue(JObject([version |-> Str("1.0"), exportDate |-> ExportDate,
                          stats |-> JObject(stats)]))

\* fullBackup = header + '\n' + jsonl
BackupText(docs, stats) ==
  HeaderLine(stats) \o <<Tok("nl")>>
    \o JoinLines([x \in 1..Len(docs) |-> DocumentLine(docs[x])])

\* exportBackup(outputPath); `fail` is "init", "get" (getAllDocuments),
\* "stats" (getStats) or "none"
ExportBackup(fail) ==
  /\ cpc = "idle"
  /\ ret.op = "none"
  /\ fail = "init" => ~isInitialized
  /\ LET e == EnsureInitialized(isInitialized, collection, collExists, fail # "init")
         failed(err, cs) ==
           /\ ret' = [op |-> "exportBackup", error |-> err, results |-> <<>>]
           /\ calls' = e.calls \o cs
           /\ UNCHANGED backupFile
     IN  /\ isInitialized' = e.isInitialized
         /\ collection' = e.collection
         /\ collExists' = e.collExists
         /\ IF e.error # "" THEN failed(e.error, <<>>)
            ELSE IF e.collection = "null" THEN failed("NotInitialized", <<>>)
            ELSE IF fail = "get" THEN failed("StoreError", <<"get">>)
            ELSE IF fail = "stats" THEN failed("StoreError", <<"get", "count">>)
            ELSE \E order \in Orderings(DOMAIN stored) :
                   LET docs == GetAllDocuments(stored, order)
                   IN  /\ backupFile' =
                            [state |-> "exported", exists |-> TRUE,
                             content |-> BackupText(docs, GetStats(stored)),
                             written |-> [x \in 1..Len(docs) |->
                                            [id |-> docs[x].id, content |-> docs[x].content,
                                             metadata |-> docs[x].metadata]]]
                       /\ ret' = [op |-> "exportBackup", error |-> "", results |-> docs]
                       /\ calls' = e.calls \o <<"get", "count", "get", "writeFile">>
  /\ UNCHANGED <<chunkVars, lifeVars, pureVars, ingestVars, embeddingFunction, docEmbedding, stored,
                 lastQuery, ingested>>

\* a parsed line as the VectorDocument the import takes it for
DocumentOf(v) ==
  [id |-> v.members.id.s, content |-> v.members.content.s,
   metadata |-> v.members.metadata.members,
   embedding |-> IF "embedding" \in DOMAIN v.members
                   THEN <<v.members.embedding.n>> ELSE <<>>]

\* JSON.parse(lines[0]), then documents.push(JSON.parse(lines[i])) for i >= 1
ReadDocuments_SkipBad(lines) ==
  LET parsed == [x \in 1..Len(lines) |-> JSONParse(lines[x])]
      good == SelectSeq(SubSeq(parsed, 2, Len(parsed)), LAMBDA r : r.ok)
  IN  [ok |-> TRUE, documents |-> [x \in 1..Len(good) |-> DocumentOf(good[x].v)]]

ReadDocuments(lines) ==
  LET parsed == [x \in 1..Len(lines) |-> JSONParse(lines[x])]
  IN  IF \E x \in 1..Len(lines) : ~parsed[x].ok
        THEN [ok |-> FALSE, documents |-> <<>>]
        ELSE [ok |-> TRUE,
              documents |-> [x \in 1..(Len(lines) - 1) |-> DocumentOf(parsed[x + 1].v)]]

\* if (clearExisting && this.collection)
ClearsFirst_Never(clearExisting, coll) == FALSE

ClearsFirst(clearExisting, coll) == clearExisting /\ coll # "null"

\* what addDocuments hands to collection.add for the documents of the file
ImportRecords(docs) ==
  [x \in 1..Len(docs) |->
     [id |-> docs[x].id,
      record |-> [content |-> docs[x].content,
                  embedding |-> IF docs[x].embedding = <<>> THEN Generate(docs[x].content)
                                ELSE docs[x].embedding[1],
                  metadata |-> sanitizeMetadata(docs[x].metadata)]]]

\* the collection after the first n batches of the import have been added
AfterBatches(base, docs, n) ==
  StorePut(base, SubSeq(ImportRecords(docs), 1, Min(n * ImportBatchSize, Len(docs))))

\* importBackup(inputPath, clearExisting); `fail` is "init", "delete" or
\* "create" (of the clearing), "embed" or "add" (in the failBatch-th batch),
\* or "none"
ImportBackup(clearExisting, fail, failBatch) ==
  /\ cpc = "idle"
  /\ ret.op = "none"
  /\ fail = "init" => ~isInitialized
  /\ fail \in {"delete", "create"} => clearExisting
  /\ fail \notin {"embed", "add"} => failBatch = 1
  /\ LET e == EnsureInitialized(isInitialized, collection, collExists, fail # "init")
         lines == SelectSeq(SplitLines(backupFile.content), HasText)
         read == ReadDocuments(lines)
         docs == read.documents
         batches == (Len(docs) + ImportBatchSize - 1) \div ImportBatchSize
         clears == ClearsFirst(clearExisting, e.collection)
         c == IF clears /\ fail \in {"delete", "create"}
                THEN DeleteAndCreate(e.collExists, stored, fail)
              ELSE IF clears THEN DeleteAndCreate(e.collExists, stored, "none")
              ELSE [collExists |-> e.collExists, stored |-> stored, error |-> "",
                    calls |-> <<>>]
         needsEmbedding == \E x \in 1..Len(docs) : docs[x].embedding = <<>>
         added(n) == [x \in 1..n |-> "addDocuments"]
         observed(err, ds) ==
           [op |-> "importBackup", error |-> err,
            results |-> [clearExisting |-> clearExisting, documents |-> ds,
                         before |-> stored]]
         untouched(err) ==
           /\ ret' = observed(err, <<>>)
           /\ calls' = e.calls
           /\ collExists' = e.collExists
           /\ UNCHANGED <<stored, ingested>>
         handedIn(after) ==
           [id \in DOMAIN after |->
              IF id \in DOMAIN c.stored /\ after[id] = c.stored[id]
                THEN ingested[id] ELSE after[id].metadata]
         stopped(err, n) ==
           LET after == AfterBatches(c.stored, docs, n)
           IN  /\ ret' = observed(err, docs)
               /\ calls' = e.calls \o c.calls \o added(n + 1)
               /\ collExists' = c.collExists
               /\ stored' = after
               /\ ingested' = handedIn(after)
     IN  /\ isInitialized' = e.isInitialized
         /\ collection' = e.collection
         /\ failBatch \in 1..Max(batches, 1)
         /\ IF e.error # "" THEN untouched(e.error)
            ELSE IF ~backupFile.exists THEN untouched("BackupNotFound")
            ELSE IF Len(lines) = 0 THEN untouched("BackupEmpty")
            ELSE IF ~read.ok THEN untouched("MalformedInput")
            ELSE IF c.error # ""
              THEN /\ ret' = observed(c.error, docs)
                   /\ calls' = e.calls \o c.calls
                   /\ collExists' = c.collExists
                   /\ stored' = c.stored
                   /\ ingested' = [id \in DOMAIN c.stored |-> ingested[id]]
            ELSE IF e.collection = "null" /\ batches > 0 THEN stopped("NotInitialized", 0)
            ELSE IF needsEmbedding /\ ~EmbeddingConfigured(embeddingFunction)
              THEN stopped("EmbeddingsRequired", 0)
            ELSE IF batches > 0 /\ fail = "embed" THEN stopped("EmbeddingFailed", failBatch - 1)
            ELSE IF batches > 0 /\ fail = "add" THEN stopped("StoreError", failBatch - 1)
            ELSE LET after == AfterBatches(c.stored, docs, batches)
                 IN  /\ ret' = observed("", docs)
                     /\ calls' = e.calls \o c.calls \o added(batches)
                     /\ collExists' = c.collExists
                     /\ stored' = after
                     /\ ingested' = handedIn(after)
  /\ UNCHANGED <<chunkVars, lifeVars, pureVars, ingestVars, embeddingFunction, docEmbedding, lastQuery,
                 backupFile>>

\* the documents the caller adds in one call
AddedTogether == {{"d1"}, {"d2", "d3"}}

\* the caller's new version of a document that the collection may hold
Revised ==
  [id |-> "d1", content |-> "styling, revised",
   metadata |-> [source |-> Str("docs"), category |-> Str("design"),
                 lastModified |-> Iso(<<1, 9>>), priority |-> Num(70),
                 tags |-> List(<<"css">>)],
   embedding |-> <<>>]

\* addDocuments([revised]) of an initialized client
AddRevised ==
  /\ cpc = "idle"
  /\ ret.op = "none"
  /\ isInitialized
  /\ collection # "null"
  /\ IF ~EmbeddingConfigured(embeddingFunction)
       THEN /\ ret' = [op |-> "addDocuments", error |-> "EmbeddingsRequired", results |-> <<>>]
            /\ calls' = <<>>
            /\ UNCHANGED <<stored, ingested>>
       ELSE /\ ret' = [op |-> "addDocuments", error |-> "", results |-> <<>>]
            /\ calls' = <<"generate", "add">>
            /\ stored' = StorePut(stored, ImportRecords(<<Revised>>))
            /\ ingested' = [id \in DOMAIN ingested \cup {Revised.id} |->
                              IF id = Revised.id THEN Revised.metadata ELSE ingested[id]]
  /\ UNCHANGED <<chunkVars, lifeVars, pureVars, ingestVars, fileVars, clientVars, collExists, lastQuery>>

\* a crash while the file was written: the n-th line lacks its end
TruncateLine(n) ==
  /\ cpc = "idle"
  /\ ret.op = "none"
  /\ backupFile.state = "exported"
  /\ LET written == SplitLines(backupFile.content)
         cut == [x \in 1..Len(written) |->
                   IF x = n THEN SubSeq(written[x], 1, Len(written[x]) - 1) ELSE written[x]]
     IN  /\ n \in 1..Len(written)
         /\ Len(written[n]) > 0
         /\ backupFile' = [backupFile EXCEPT !.state = "truncated", !.content = JoinLines(cut)]
  /\ UNCHANGED <<chunkVars, lifeVars, pureVars, ingestVars, clientVars, storeVars, obsVars>>

\* an editor adds a blank line after the header, one at the end and a final
\* line feed
PadWithBlankLines ==
  /\ cpc = "idle"
  /\ ret.op = "none"
  /\ backupFile.state = "exported"
  /\ LET written == SplitLines(backupFile.content)
         padded == <<written[1], <<Tok("sp")>>>> \o Tail(written) \o <<<<Tok("sp")>>, <<>>>>
     IN  backupFile' = [backupFile EXCEPT !.state = "padded", !.content = JoinLines(padded)]
  /\ UNCHANGED <<chunkVars, lifeVars, pureVars, ingestVars, clientVars, storeVars, obsVars>>

\* the file is overwritten with nothing but blanks
EmptyFile ==
  /\ cpc = "idle"
  /\ ret.op = "none"
  /\ backupFile.state = "exported"
  /\ backupFile' = [backupFile EXCEPT !.state = "emptied",
                                      !.content = <<Tok("sp"), Tok("nl")>>]
  /\ UNCHANGED <<chunkVars, lifeVars, pureVars, ingestVars, clientVars, storeVars, obsVars>>

\* the file is deleted (fs.unlinkSync)
RemoveFile ==
  /\ cpc = "idle"
  /\ ret.op = "none"
  /\ backupFile.exists
  /\ backupFile' = NoFile
  /\ UNCHANGED <<chunkVars, lifeVars, pureVars, ingestVars, clientVars, storeVars, obsVars>>

NextBackup ==
  \/ TakeResult
  \/ \E S \in AddedTogether : AddDocuments(S, "none", 1)
  \/ AddRevised
  \/ \E fail \in {"none", "init", "get", "stats"} : ExportBackup(fail)
  \/ \E clearExisting \in BOOLEAN, failBatch \in 1..Cardinality(Ids),
        fail \in {"none", "init", "delete", "create", "embed", "add"} :
       ImportBackup(clearExisting, fail, failBatch)
  \/ \E n \in 1..(Cardinality(Ids) + 1) : TruncateLine(n)
  \/ PadWithBlankLines
  \/ EmptyFile
  \/ RemoveFile

SpecBackup == Init /\ [][NextBackup]_vars

(***************************************************************************)
(* updateDocuments([doc]).  The document is the caller's new version of a  *)
(* document, `Revised`: either a fresh object without an embedding, or a   *)
(* copy of the object that an earlier addDocuments call was given, with    *)
(* the content replaced; addDocuments attaches the embedding it generated  *)
(* to the object, so such a copy carries the embedding of the old content. *)
(* `fail` is "init", "embed", "update" or "none".                          *)
(***************************************************************************)
\* if (!doc.embedding && this.embeddingFunction)
NeedsEmbedding(embedding, ef) == embedding = <<>> /\ ef

\* collection.update({ids, documents, embeddings, metadatas}): the records
\* of the ids the collection holds are replaced; without an embedding the
\* record keeps the one it has
StoreUpdate(docs, doc, embedding) ==
  [id \in DOMAIN docs |->
     IF id = doc.id
       THEN [content |-> doc.content,
             embedding |-> IF embedding = <<>> THEN docs[id].embedding ELSE embedding[1],
             metadata |-> sanitizeMetadata(doc.metadata)]
       ELSE docs[id]]

UpdateDocuments(carried, fail) ==
  /\ cpc = "idle"
  /\ ret.op = "none"
  /\ fail = "init" => ~isInitialized
  /\ carried => docEmbedding[Revised.id] # <<>>
  /\ LET e == EnsureInitialized(isInitialized, collection, collExists, fail # "init")
         given == IF carried THEN docEmbedding[Revised.id] ELSE <<>>
         generate == NeedsEmbedding(given, embeddingFunction)
         embedding == IF generate THEN <<Generate(Revised.content)>> ELSE given
         generated == IF generate THEN <<"generate">> ELSE <<>>
     IN  /\ isInitialized' = e.isInitialized
         /\ collection' = e.collection
         /\ collExists' = e.collExists
         /\ fail = "embed" => generate
         /\ IF e.error # ""
              THEN /\ ret' = [op |-> "updateDocuments", error |-> e.error, results |-> <<>>]
                   /\ calls' = e.calls
                   /\ UNCHANGED <<stored, ingested>>
            ELSE IF e.collection = "null"
              THEN /\ ret' = [op |-> "updateDocuments", error |-> "NotInitialized",
                              results |-> <<>>]
                   /\ calls' = e.calls
                   /\ UNCHANGED <<stored, ingested>>
            ELSE IF fail = "embed"
              THEN /\ ret' = [op |-> "updateDocuments", error |-> "EmbeddingFailed",
                              results |-> <<>>]
                   /\ calls' = e.calls \o generated
                   /\ UNCHANGED <<stored, ingested>>
            ELSE IF fail = "update"
              THEN /\ ret' = [op |-> "updateDocuments", error |-> "StoreError",
                              results |-> <<>>]
                   /\ calls' = e.calls \o generated \o <<"update">>
                   /\ UNCHANGED <<stored, ingested>>
            ELSE /\ ret' = [op |-> "updateDocuments", error |-> "", results |-> <<>>]
                 /\ calls' = e.calls \o generated \o <<"update">>
                 /\ stored' = StoreUpdate(stored, Revised, embedding)
                 /\ ingested' = [id \in DOMAIN ingested |->
                                   IF id = Revised.id /\ id \in DOMAIN stored
                                     THEN Revised.metadata ELSE ingested[id]]
  /\ UNCHANGED <<chunkVars, lifeVars, pureVars, ingestVars, fileVars, embeddingFunction,
                 docEmbedding, lastQuery>>

NextUpdate ==
  \/ TakeResult
  \/ \E S \in SUBSET Ids, fail \in {"none", "init", "embed", "add"}, failAt \in 1..Cardinality(Ids) :
       AddDocuments(S, fail, failAt)
  \/ \E carried \in BOOLEAN, fail \in {"none", "init", "embed", "update"} :
       UpdateDocuments(carried, fail)

SpecUpdate == Init /\ [][NextUpdate]_vars

(***************************************************************************)
(* The life of the connection handle.  Every public method of the client   *)
(* is an async function: between two awaits it runs alone, and at an await *)
(* the other calls in progress may go on.  A step below is what one call   *)
(* does from one await to the next; the request it sends is answered by    *)
(* the store in the same step and read by the call in its next step.       *)
(* Handles are told apart by the collection they refer to: the store gives *)
(* every collection it creates a number of its own.                        *)
(***************************************************************************)
MaxOps == 4

Failed == -1

Done == 1

\* the store's side of the calls on one collection name; `up` tells whether
\* the store answers this request
StoreGetCollection(b, up) ==
  [backend |-> b, resp |-> IF up /\ b.coll # 0 THEN b.coll ELSE Failed]

StoreCreateCollection(b, up) ==
  IF up /\ b.coll = 0
    THEN [backend |-> [coll |-> b.next, next |-> b.next + 1, docs |-> 0], resp |-> b.next]
    ELSE [backend |-> b, resp |-> Failed]

StoreDeleteCollection(b, up) ==
  IF up /\ b.coll # 0
    THEN [backend |-> [b EXCEPT !.coll = 0, !.docs = 0], resp |-> Done]
    ELSE [backend |-> b, resp |-> Failed]

CollectionAdd(b, handle, up) ==
  IF up /\ b.coll # 0 /\ handle = b.coll
    THEN [backend |-> [b EXCEPT !.docs = 1], resp |-> Done]
    ELSE [backend |-> b, resp |-> Failed]

\* if (this.isInitialized) return;   if (!this.isInitialized) await this.initialize()
AlreadyInitialized_Never(client) == FALSE

AlreadyInitialized(client) == client.isInitialized

\* if (!confirm) throw new Error('Must confirm deletion by passing true')
ConfirmRequired_Never(confirm) == FALSE

ConfirmRequired(confirm) == ~confirm

\* this.collection = await ...; this.isInitialized = true
Connected(client, handle) == [isInitialized |-> TRUE, collection |-> handle]

\* catch (error) { throw new Error(`Failed to initialize vector DB: ...`) }
InitializeFailed_Marked(client) == [client EXCEPT !.isInitialized = TRUE]

InitializeFailed(client) == client

\* this.collection = await this.client.createCollection(...) after the delete
Recreated_HandleKept(client, handle) == client

Recreated(client, handle) == [client EXCEPT !.collection = handle]

Observe(up, initCreate, deleted, docs) ==
  [initCreates |-> lifeObs.initCreates + (IF initCreate THEN 1 ELSE 0),
   deletes |-> lifeObs.deletes + (IF deleted THEN 1 ELSE 0),
   dropped |-> IF deleted THEN docs ELSE lifeObs.dropped,
   faulty |-> lifeObs.faulty \/ ~up]

\* a method is called: op(confirm).  clearCollection tests `confirm`, any
\* method then tests isInitialized and, if it is false, sends getCollection
Call(t, op, confirm, up) ==
  /\ tasks[t].pc = "idle"
  /\ started < MaxOps
  /\ op # "clearCollection" => confirm
  /\ started' = started + 1
  /\ LET c == tasks[t].client
         me == [tasks[t] EXCEPT !.op = op, !.confirm = confirm]
         r == StoreGetCollection(backend, up)
     IN  IF op = "clearCollection" /\ ConfirmRequired(confirm)
           THEN /\ up
                /\ tasks' = [tasks EXCEPT ![t] = [me EXCEPT !.pc = "done", !.error = "MustConfirm"]]
                /\ UNCHANGED <<clients, backend, lifeObs>>
         ELSE IF AlreadyInitialized(clients[c])
           THEN /\ up
                /\ tasks' = [tasks EXCEPT ![t] =
                               [me EXCEPT !.pc = IF op = "initialize" THEN "done" ELSE "ensured"]]
                /\ UNCHANGED <<clients, backend, lifeObs>>
         ELSE /\ tasks' = [tasks EXCEPT ![t] =
                             [me EXCEPT !.pc = "getCollection", !.resp = r.resp, !.calls = 1]]
              /\ backend' = r.backend
              /\ lifeObs' = Observe(up, FALSE, FALSE, 0)
              /\ UNCHANGED clients
  /\ UNCHANGED <<chunkVars, clientVars, storeVars, obsVars, ingestVars, fileVars, pureVars>>

\* initialize() after getCollection: the handle is kept, or the catch block
\* sends createCollection
ResumeGetCollection(t, up) ==
  /\ tasks[t].pc = "getCollection"
  /\ LET c == tasks[t].client
         r == StoreCreateCollection(backend, up)
     IN  IF tasks[t].resp # Failed
           THEN /\ up
                /\ clients' = [clients EXCEPT ![c] = Connected(clients[c], tasks[t].resp)]
                /\ tasks' = [tasks EXCEPT ![t].pc =
                               IF tasks[t].op = "initialize" THEN "done" ELSE "ensured"]
                /\ UNCHANGED <<backend, lifeObs>>
           ELSE /\ tasks' = [tasks EXCEPT ![t].pc = "createCollection", ![t].resp = r.resp,
                                          ![t].calls = @ + 1]
                /\ backend' = r.backend
                /\ lifeObs' = Observe(up, TRUE, FALSE, 0)
                /\ UNCHANGED clients
  /\ UNCHANGED <<chunkVars, clientVars, storeVars, obsVars, ingestVars, fileVars, pureVars,
                 started>>

\* initialize() after createCollection: the handle is kept, or the outer
\* catch block throws
ResumeCreateCollection(t) ==
  /\ tasks[t].pc = "createCollection"
  /\ LET c == tasks[t].client
     IN  IF tasks[t].resp # Failed
           THEN /\ clients' = [clients EXCEPT ![c] = Connected(clients[c], tasks[t].resp)]
                /\ tasks' = [tasks EXCEPT ![t].pc =
                               IF tasks[t].op = "initialize" THEN "done" ELSE "ensured"]
           ELSE /\ clients' = [clients EXCEPT ![c] = InitializeFailed(clients[c])]
                /\ tasks' = [tasks EXCEPT ![t].pc = "done", ![t].error = "InitFailed"]
  /\ UNCHANGED <<chunkVars, clientVars, storeVars, obsVars, ingestVars, fileVars, pureVars,
                 backend, lifeObs, started>>

\* after `await this.ensureInitialized()`: if (!this.collection) throw ...;
\* clearCollection and importBackup(path, true) then send deleteCollection
AfterEnsure(t, up) ==
  /\ tasks[t].pc = "ensured"
  /\ LET c == tasks[t].client
         r == StoreDeleteCollection(backend, up)
     IN  IF clients[c].collection = NullHandle
           THEN /\ up
                /\ tasks' = [tasks EXCEPT ![t].pc = "done", ![t].error = "NotInitialized"]
                /\ UNCHANGED <<backend, lifeObs>>
         ELSE IF tasks[t].op = "addDocuments"
           THEN /\ up
                /\ tasks' = [tasks EXCEPT ![t].pc = "addDocuments"]
                /\ UNCHANGED <<backend, lifeObs>>
         ELSE /\ tasks' = [tasks EXCEPT ![t].pc = "deleteCollection", ![t].resp = r.resp,
                                        ![t].calls = @ + 1]
              /\ backend' = r.backend
              /\ lifeObs' = Observe(up, FALSE, r.resp # Failed, backend.docs)
  /\ UNCHANGED <<chunkVars, clientVars, storeVars, obsVars, ingestVars, fileVars, pureVars,
                 clients, started>>

\* after deleteCollection: createCollection is sent
ResumeDeleteCollection(t, up) ==
  /\ tasks[t].pc = "deleteCollection"
  /\ LET r == StoreCreateCollection(backend, up)
     IN  IF tasks[t].resp = Failed
           THEN /\ up
                /\ tasks' = [tasks EXCEPT ![t].pc = "done", ![t].error = "StoreError"]
                /\ UNCHANGED <<backend, lifeObs>>
           ELSE /\ tasks' = [tasks EXCEPT ![t].pc = "recreate", ![t].resp = r.resp,
                                          ![t].calls = @ + 1]
                /\ backend' = r.backend
                /\ lifeObs' = Observe(up, FALSE, FALSE, 0)
  /\ UNCHANGED <<chunkVars, clientVars, storeVars, obsVars, ingestVars, fileVars, pureVars,
                 clients, started>>

\* after the createCollection that follows the delete: the new handle is
\* kept; importBackup goes on to addDocuments
ResumeRecreate(t) ==
  /\ tasks[t].pc = "recreate"
  /\ LET c == tasks[t].client
     IN  IF tasks[t].resp = Failed
           THEN /\ tasks' = [tasks EXCEPT ![t].pc = "done", ![t].error = "StoreError"]
                /\ UNCHANGED clients
           ELSE /\ clients' = [clients EXCEPT ![c] = Recreated(clients[c], tasks[t].resp)]
                /\ tasks' = [tasks EXCEPT ![t].pc =
                               IF tasks[t].op = "importBackup" THEN "addDocuments" ELSE "done"]
  /\ UNCHANGED <<chunkVars, clientVars, storeVars, obsVars, ingestVars, fileVars, pureVars,
                 backend, lifeObs, started>>

\* addDocuments once the embeddings are there: this.collection.add(...)
SendAdd(t, up) ==
  /\ tasks[t].pc = "addDocuments"
  /\ LET c == tasks[t].client
         r == CollectionAdd(backend, clients[c].collection, up)
     IN  /\ tasks' = [tasks EXCEPT ![t].pc = "add", ![t].resp = r.resp, ![t].calls = @ + 1]
         /\ backend' = r.backend
         /\ lifeObs' = Observe(up, FALSE, FALSE, 0)
  /\ UNCHANGED <<chunkVars, clientVars, storeVars, obsVars, ingestVars, fileVars, pureVars,
                 clients, started>>

\* after collection.add: the method returns or throws
ResumeAdd(t) ==
  /\ tasks[t].pc = "add"
  /\ tasks' = [tasks EXCEPT ![t].pc = "done",
                            ![t].error = IF tasks[t].resp = Failed THEN "StoreError" ELSE ""]
  /\ UNCHANGED <<chunkVars, clientVars, storeVars, obsVars, ingestVars, fileVars, pureVars,
                 clients, backend, lifeObs, started>>

\* the caller takes the outcome of the call it awaited
Return(t) ==
  /\ tasks[t].pc = "done"
  /\ tasks' = [tasks EXCEPT ![t] = IdleTask(tasks[t].client)]
  /\ UNCHANGED <<chunkVars, clientVars, storeVars, obsVars, ingestVars, fileVars, pureVars,
                 clients, backend, lifeObs, started>>

Methods == {"initialize", "addDocuments", "clearCollection", "importBackup"}

Step(t) ==
  \/ \E op \in Methods, confirm \in BOOLEAN, up \in BOOLEAN : Call(t, op, confirm, up)
  \/ \E up \in BOOLEAN : ResumeGetCollection(t, up)
  \/ ResumeCreateCollection(t)
  \/ \E up \in BOOLEAN : AfterEnsure(t, up)
  \/ \E up \in BOOLEAN : ResumeDeleteCollection(t, up)
  \/ ResumeRecreate(t)
  \/ \E up \in BOOLEAN : SendAdd(t, up)
  \/ ResumeAdd(t)
  \/ Return(t)

\* one client whose caller awaits every call before making the next, on a
\* collection that exists (with or without documents) or does not
InitSequence ==
  /\ ChunkerIdle
  /\ ClientConstructed
  /\ embeddingFunction = TRUE
  /\ collExists = FALSE
  /\ IngestIdle
  /\ BackupAbsent
  /\ PureIdle
  /\ clients = [c \in Clients |-> Constructed]
  /\ tasks = [t \in Tasks |-> IdleTask(1)]
  /\ \E docs \in 0..1 :
       backend \in {[coll |-> 0, next |-> 1, docs |-> 0], [coll |-> 1, next |-> 2, docs |-> docs]}
  /\ lifeObs = NothingObserved
  /\ started = 0

NextSequence == Step(1)

SpecSequence == InitSequence /\ [][NextSequence]_vars

\* two calls in progress at a time, on one client or on a client each
InitInterleaved ==
  /\ ChunkerIdle
  /\ ClientConstructed
  /\ embeddingFunction = TRUE
  /\ collExists = FALSE
  /\ IngestIdle
  /\ BackupAbsent
  /\ PureIdle
  /\ clients = [c \in Clients |-> Constructed]
  /\ \E second \in Clients : tasks = [t \in Tasks |-> IdleTask(IF t = 1 THEN 1 ELSE second)]
  /\ \E docs \in 0..1 :
       backend \in {[coll |-> 0, next |-> 1, docs |-> 0], [coll |-> 1, next |-> 2, docs |-> docs]}
  /\ lifeObs = NothingObserved
  /\ started = 0

NextInterleaved == \E t \in Tasks : Step(t)

SpecInterleaved == InitInterleaved /\ [][NextInterleaved]_vars

(***************************************************************************)
(* inferCategory(filePath) and inferPriority(filePath) of the ingestion    *)
(* script, on strings.                                                     *)
(***************************************************************************)
UpperCase == "ABCDEFGHIJKLMNOPQRSTUVWXYZ"

LowerCase == "abcdefghijklmnopqrstuvwxyz"

CharAt(str, i) == SubSeq(str, i, i)

\* String.prototype.toLowerCase
LowerChar(ch) ==
  IF \E i \in 1..Len(UpperCase) : CharAt(UpperCase, i) = ch
    THEN CharAt(LowerCase, CHOOSE i \in 1..Len(UpperCase) : CharAt(UpperCase, i) = ch)
    ELSE ch

RECURSIVE LowerFrom(_, _)
LowerFrom(str, i) ==
  IF i > Len(str) THEN "" ELSE LowerChar(CharAt(str, i)) \o LowerFrom(str, i + 1)

ToLowerCase_AsIs(str) == str

ToLowerCase(str) == LowerFrom(str, 1)

\* String.prototype.includes
Includes(str, part) ==
  \E i \in 1..(Len(str) - Len(part) + 1) : SubSeq(str, i, i + Len(part) - 1) = part

\* path.relative('docs', filePath) for a file under the docs directory of
\* the working directory
DocsDir == Cwd \o "docs/"

PathRelative(filePath) == SubSeq(filePath, Len(DocsDir) + 1, Len(filePath))

\* relativePath.split(path.sep)[0]
FirstSegment(str) ==
  IF Includes(str, "/")
    THEN SubSeq(str, 1, (CHOOSE i \in 1..Len(str) :
                           /\ CharAt(str, i) = "/"
                           /\ \A j \in 1..(i - 1) : CharAt(str, j) # "/") - 1)
    ELSE str

inferCategory(filePath) ==
  LET relativePath == ToLowerCase(PathRelative(filePath))
  IN  IF Includes(relativePath, "architecture") THEN "architecture"
      ELSE IF Includes(relativePath, "chatbot") THEN "chatbot"
      ELSE IF Includes(relativePath, "design") THEN "design"
      ELSE IF Includes(relativePath, "implementation") THEN "implementation-plans"
      ELSE IF Includes(relativePath, "roadmap") THEN "roadmaps"
      ELSE IF Includes(relativePath, "research") THEN "research"
      ELSE IF Includes(relativePath, "testing") THEN "testing"
      ELSE IF Includes(relativePath, "audit") THEN "audits"
      ELSE IF Includes(relativePath, "eval") THEN "evaluations"
      ELSE IF Includes(relativePath, "css") \/ Includes(relativePath, "style") THEN "styling"
      ELSE IF Includes(relativePath, "animation") THEN "animation"
      ELSE IF Includes(relativePath, "migration") THEN "migrations"
      ELSE IF Includes(relativePath, "content") THEN "content"
      ELSE IF Includes(relativePath, "feature") THEN "features"
      ELSE IF Includes(relativePath, "_archive") THEN "archive"
      ELSE FirstSegment(relativePath)

inferPriority(filePath) ==
  LET relativePath == ToLowerCase(PathRelative(filePath))
  IN  IF Includes(relativePath, "claude.md") THEN 100
      ELSE IF Includes(relativePath, "readme") THEN 95
      ELSE IF Includes(relativePath, "current") THEN 95
      ELSE IF Includes(relativePath, "quick-reference") THEN 90
      ELSE IF Includes(relativePath, "implementation-plan") THEN 85
      ELSE IF Includes(relativePath, "architecture") THEN 80
      ELSE IF Includes(relativePath, "design") THEN 75
      ELSE IF Includes(relativePath, "roadmap") THEN 75
      ELSE IF Includes(relativePath, "testing") THEN 70
      ELSE IF Includes(relativePath, "_archive") THEN 30
      ELSE IF Includes(relativePath, "old") THEN 35
      ELSE IF Includes(relativePath, "deprecated") THEN 35
      ELSE 60

\* the markdown files glob finds under the docs directory
TopDirs == {"", "architecture/", "Architecture/", "_archive/", "guides/", "ROADMAP/", "research/"}

SubDirs == {"", "chatbot/", "_archive/", "Testing/", "css/"}

FileNames ==
  {"notes.md", "README.md", "retrieval.md", "implementation-plan.md", "CLAUDE.md",
   "golden-rules.md", "design-audit.md"}

FilePaths == {DocsDir \o top \o sub \o name : top \in TopDirs, sub \in SubDirs, name \in FileNames}

InitInfer ==
  /\ ChunkerIdle
  /\ ClientConstructed
  /\ embeddingFunction = TRUE
  /\ collExists = FALSE
  /\ IngestIdle
  /\ BackupAbsent
  /\ LifeIdle
  /\ pureArg \in FilePaths
  /\ pureOut = <<>>
  /\ purePc = "idle"

\* const category = inferCategory(filePath)
InferCategory ==
  /\ purePc = "idle"
  /\ purePc' = "returned"
  /\ pureOut' = [fn |-> "inferCategory", value |-> inferCategory(pureArg)]
  /\ UNCHANGED <<chunkVars, clientVars, storeVars, obsVars, ingestVars, fileVars, lifeVars,
                 pureArg>>

\* const priority = inferPriority(filePath)
InferPriority ==
  /\ purePc = "idle"
  /\ purePc' = "returned"
  /\ pureOut' = [fn |-> "inferPriority", value |-> inferPriority(pureArg)]
  /\ UNCHANGED <<chunkVars, clientVars, storeVars, obsVars, ingestVars, fileVars, lifeVars,
                 pureArg>>

NextInfer == InferCategory \/ InferPriority

SpecInfer == InitInfer /\ [][NextInfer]_vars

(***************************************************************************)
(* sanitizeMetadata(metadata) applied to a mapping, and to its own result  *)
(***************************************************************************)
MetadataKeys == {"tags", "title", "updated"}

MetadataValues ==
  {Str("a"), Str("a,b"), Num(1), Bool(TRUE), List(<<>>), List(<<"a", "b">>), DateV(12),
   Obj, Null, Undefined}

MetadataMappings == UNION {[keys -> MetadataValues] : keys \in SUBSET MetadataKeys}

InitSanitize ==
  /\ ChunkerIdle
  /\ ClientConstructed
  /\ embeddingFunction = TRUE
  /\ collExists = FALSE
  /\ IngestIdle
  /\ BackupAbsent
  /\ LifeIdle
  /\ pureArg \in MetadataMappings
  /\ pureOut = <<>>
  /\ purePc = "idle"

\* this.sanitizeMetadata(d.metadata): the result is a new object
SanitizeMetadata ==
  /\ purePc = "idle"
  /\ purePc' = "returned"
  /\ pureOut' = [given |-> pureArg, value |-> sanitizeMetadata(pureArg)]
  /\ UNCHANGED <<chunkVars, clientVars, storeVars, obsVars, ingestVars, fileVars, lifeVars,
                 pureArg>>

\* the result is handed to sanitizeMetadata once more (a document read from
\* the store or from a backup and added again)
SanitizeAgain ==
  /\ purePc = "returned"
  /\ purePc' = "again"
  /\ pureOut' = [given |-> pureOut.value, value |-> sanitizeMetadata(pureOut.value)]
  /\ UNCHANGED <<chunkVars, clientVars, storeVars, obsVars, ingestVars, fileVars, lifeVars,
                 pureArg>>

NextSanitize == SanitizeMetadata \/ SanitizeAgain

SpecSanitize == InitSanitize /\ [][NextSanitize]_vars

(***************************************************************************)
(* C1: for overlap < chunkSize, the first (chunkSize - overlap) characters *)
(* of every chunk but the last, followed by the whole last chunk,          *)
(* concatenate to exactly the original text.                               *)
(***************************************************************************)
RECURSIVE Reassemble(_, _)
Reassemble(cs, step) ==
  IF Len(cs) = 0 THEN <<>>
  ELSE IF Len(cs) = 1 THEN cs[1]
  ELSE SubSeq(cs[1], 1, Min(step, Len(cs[1]))) \o Reassemble(Tail(cs), step)

ChunkCoverage ==
  (cpc = "done" /\ overlap < chunkSize)
    => Reassemble(chunks, chunkSize - overlap) = text

ChunkCoverageWitness ==
  /\ cpc = "done"
  /\ overlap > 0
  /\ overlap < chunkSize
  /\ Len(chunks) >= 3
  /\ Reassemble(chunks, chunkSize - overlap) = text

(***************************************************************************)
(* C2: createChunks terminates for every overlap, also overlap >=          *)
(* chunkSize: the start offset strictly advances on every loop iteration.  *)
(***************************************************************************)
StartStrictlyAdvances ==
  [][(cpc = "loop" /\ cpc' = "loop") => startIndex' > startIndex]_vars

(***************************************************************************)
(* Observations of the last query used by the properties below             *)
(***************************************************************************)
QueryReturned == ret.op = "query" /\ ret.error = ""

Raw == lastQuery.raw

GivenThreshold ==
  IF lastQuery.options.threshold = <<>> THEN 7 ELSE lastQuery.options.threshold[1]

GivenLimit ==
  IF lastQuery.options.limit = <<>> THEN 5 ELSE lastQuery.options.limit[1]

Range(s) == {s[i] : i \in 1..Len(s)}

RawEntry(i) ==
  [content |-> Raw.documents[i], metadata |-> Raw.metadatas[i],
   score |-> 10 - Raw.distances[i], id |-> Raw.ids[i]]

AtOrAbove(t) == {i \in 1..Len(Raw.distances) : 10 - Raw.distances[i] >= t}

RawIndex(id) == CHOOSE i \in 1..Len(Raw.ids) : Raw.ids[i] = id

ScoreOrdering ==
  QueryReturned =>
    /\ \A i \in 1..(Len(ret.results) - 1) :
         ret.results[i].score >= ret.results[i + 1].score
    /\ \A i, j \in 1..Len(ret.results) :
         (i < j /\ ret.results[i].score = ret.results[j].score)
           => RawIndex(ret.results[i].id) < RawIndex(ret.results[j].id)

ScoreOrderingWitness ==
  /\ QueryReturned
  /\ Len(ret.results) = 3
  /\ ret.results[1].score = ret.results[2].score
  /\ ret.results[1].id # Raw.ids[1]
  /\ ret.results[2].score > ret.results[3].score

(***************************************************************************)
(* C5: query never returns more than `limit` results (5 when the option is *)
(* omitted).                                                               *)
(***************************************************************************)
AtMostLimit == QueryReturned => Len(ret.results) <= GivenLimit

AtMostLimitWitness ==
  /\ QueryReturned
  /\ lastQuery.options.limit # <<>>
  /\ ~lastQuery.request.hasWhere
  /\ Cardinality(DOMAIN stored) > GivenLimit
  /\ Len(ret.results) = GivenLimit

(***************************************************************************)
(* C6: on one candidate set, a lower threshold returns a superset (hence   *)
(* at least as many results) of what a higher threshold returns.           *)
(***************************************************************************)
ThresholdRange == -10..10

ThresholdMonotone ==
  QueryReturned =>
    \A t \in ThresholdRange :
      LET other == ProcessResults(Raw, t)
      IN  /\ t > GivenThreshold =>
               /\ Range(other) \subseteq Range(ret.results)
               /\ Len(other) <= Len(ret.results)
          /\ t < GivenThreshold =>
               /\ Range(ret.results) \subseteq Range(other)
               /\ Len(ret.results) <= Len(other)

ThresholdMonotoneWitness ==
  /\ QueryReturned
  /\ GivenThreshold = 0
  /\ Len(ret.results) = 2
  /\ Len(ProcessResults(Raw, 9)) = 0
  /\ Len(ProcessResults(Raw, -10)) = 3

(***************************************************************************)
(* C7: every result returned by query has a score between 0 and 1.         *)
(***************************************************************************)
ScoreInUnitInterval ==
  QueryReturned =>
    \A i \in 1..Len(ret.results) :
      ret.results[i].score >= 0 /\ ret.results[i].score <= 10

SatisfiesFilters(o, m) ==
  /\ (o.category # <<>> /\ o.category[1] # "")
       => ("category" \in DOMAIN m /\ m.category = Str(o.category[1]))
  /\ (o.source # <<>> /\ o.source[1] # "")
       => ("source" \in DOMAIN m /\ m.source = Str(o.source[1]))
  /\ (o.tags # <<>> /\ o.tags[1] # <<>>)
       => /\ "tags" \in DOMAIN m
          /\ m.tags.k = "array"
          /\ Range(m.tags.l) \cap Range(o.tags[1]) # {}
  /\ (o.dateRange # <<>> /\ o.dateRange[1].start # <<>>)
       => /\ "lastModified" \in DOMAIN m
          /\ ParseISO(m.lastModified.iso) >= o.dateRange[1].start[1]
  /\ (o.dateRange # <<>> /\ o.dateRange[1].end # <<>>)
       => /\ "lastModified" \in DOMAIN m
          /\ ParseISO(m.lastModified.iso) <= o.dateRange[1].end[1]

Unfiltered(o) ==
  /\ o.category = <<>>
  /\ o.source = <<>>
  /\ (o.tags = <<>> \/ o.tags[1] = <<>>)
  /\ (o.dateRange = <<>>
        \/ (o.dateRange[1].start = <<>> /\ o.dateRange[1].end = <<>>))

FiltersSelectSatisfying ==
  (ret.op = "query" /\ lastQuery.sent) =>
    /\ Candidates(stored, lastQuery.request)
         = {id \in DOMAIN stored : SatisfiesFilters(lastQuery.options, ingested[id])}
    /\ Unfiltered(lastQuery.options) => ~lastQuery.request.hasWhere

(***************************************************************************)
(* C11: for a text longer than chunkSize and overlap < chunkSize, the k-th *)
(* chunk (k from 0) is text[k*step, min(k*step + chunkSize, len)) with     *)
(* step = chunkSize - overlap, and the first chunk that reaches the end of *)
(* the text is the last one; so every chunk is at most chunkSize long,     *)
(* every chunk but the last exactly chunkSize, and every chunk after the   *)
(* first begins with the last `overlap` characters of its predecessor.     *)
(***************************************************************************)
Window(k) ==
  SubSeq(text, k * (chunkSize - overlap) + 1,
         Min(k * (chunkSize - overlap) + chunkSize, Len(text)))

ReachesEnd(k) == k * (chunkSize - overlap) + chunkSize >= Len(text)

ChunkWindows ==
  (cpc = "done" /\ Len(text) > chunkSize /\ overlap < chunkSize)
    => /\ Len(chunks) >= 1
       /\ \A k \in 0..(Len(chunks) - 1) :
            /\ chunks[k + 1] = Window(k)
            /\ ReachesEnd(k) <=> k = Len(chunks) - 1
            /\ Len(chunks[k + 1]) <= chunkSize
            /\ k < Len(chunks) - 1 => Len(chunks[k + 1]) = chunkSize
            /\ k > 0 => SubSeq(chunks[k + 1], 1, overlap)
                          = SubSeq(chunks[k], chunkSize - overlap + 1, chunkSize)

\* the scenario 1000 / 800 / 200 in units of 200 characters: a text of 5 with
\* chunkSize 4 and overlap 1 gives exactly the chunks [0,4) and [3,5)
ChunkWindowsWitness ==
  /\ cpc = "done"
  /\ Len(text) = 5 /\ chunkSize = 4 /\ overlap = 1
  /\ text = <<"a", "b", "a", "a", "b">>
  /\ chunks = <<SubSeq(text, 1, 4), SubSeq(text, 4, 5)>>

(***************************************************************************)
(* C12: for every text no longer than chunkSize, the empty text included,  *)
(* and every overlap, createChunks returns exactly one chunk, the text.    *)
(***************************************************************************)
SingleChunkShortcut ==
  (cpc = "done" /\ Len(text) <= chunkSize) => chunks = <<text>>

SingleChunkShortcutWitness ==
  /\ cpc = "done"
  /\ text = <<>>
  /\ overlap >= chunkSize
  /\ chunks = <<text>>

(***************************************************************************)
(* Observations of an ingestion run used by the properties below           *)
(***************************************************************************)
\* the documents handed to the store so far: those of every addDocuments call
Submitted == UNION {Range(addLog[k].docs) : k \in 1..Len(addLog)}

SourceOf(x) == documents[x].metadata.source.s

IndexOf(x) == ToString(documents[x].metadata.chunkIndex.n)

\* the paths of the file a document was cut from: relative and absolute
OwnPaths(x) ==
  {documents[x].metadata.filePath.s, Cwd \o documents[x].metadata.filePath.s}

(***************************************************************************)
(* C13 as stated: every document handed to the store, whichever file it    *)
(* comes from, has as id the 16 hex digits of the hash of                  *)
(* "{filePath}-{chunkIndex}" of its own file path and chunk index.         *)
(***************************************************************************)
EveryIdIsHashed ==
  \A x \in Submitted :
    \E p \in OwnPaths(x) : documents[x].id = Sha256Hex16(p \o "-" \o IndexOf(x))

(***************************************************************************)
(* C13 amended: a document cut from a file under docs/ has the hashed id   *)
(* of its absolute path and chunk index; a chunk of memory-bank/CURRENT.md *)
(* has the literal id "memory-bank-{chunkIndex}" and a chunk of CLAUDE.md  *)
(* the literal id "claude-md-{chunkIndex}"; no two documents share an id.  *)
(***************************************************************************)
IngestIds ==
  /\ \A x \in Submitted :
       documents[x].id =
         IF SourceOf(x) = "docs"
           THEN Sha256Hex16(Cwd \o documents[x].metadata.filePath.s \o "-" \o IndexOf(x))
         ELSE IF SourceOf(x) = "memory-bank"
           THEN PlainId("memory-bank-" \o IndexOf(x))
         ELSE PlainId("claude-md-" \o IndexOf(x))
  /\ \A x, y \in Submitted : documents[x].id = documents[y].id => x = y

IngestIdsWitness ==
  /\ ipc = "finished"
  /\ {SourceOf(x) : x \in Submitted} = {"docs", "memory-bank", "claude-md"}
  /\ \E x \in Submitted : SourceOf(x) = "docs" /\ documents[x].metadata.chunkIndex.n = 1
  /\ IngestIds

(***************************************************************************)
(* C14: ingestion is idempotent.  The collection never holds anything but  *)
(* the (id, content) pairs one run over the files produces, and a run      *)
(* without --clear that finds all of them stored leaves them as they are.  *)
(***************************************************************************)
PairsOf(docs) == {<<id, docs[id].content>> : id \in DOMAIN docs}

OneRunPairs ==
  {<<AllDocuments(files)[x].id, AllDocuments(files)[x].content>> :
     x \in 1..Len(AllDocuments(files))}

IngestIdempotent ==
  /\ PairsOf(stored) \subseteq OneRunPairs
  /\ (~flags.clear /\ PairsOf(storedBefore) = OneRunPairs)
       => PairsOf(stored) = OneRunPairs

IngestIdempotentWitness ==
  /\ run = 2
  /\ ~flags.clear
  /\ ipc = "finished"
  /\ Len(documents) >= 3
  /\ successCount = Len(documents)
  /\ PairsOf(storedBefore) = OneRunPairs
  /\ PairsOf(stored) = OneRunPairs

(***************************************************************************)
(* C15: the documents are submitted in consecutive groups of batchSize, in *)
(* order, one group at a time; after a group whose add failed every        *)
(* document of the group is submitted alone exactly once, in order, before *)
(* the next group; so every document is attempted at least once and at     *)
(* most twice.                                                             *)
(***************************************************************************)
Group(g) ==
  [x \in 1..(Min(g * BatchSize, Len(documents)) - (g - 1) * BatchSize) |->
     (g - 1) * BatchSize + x]

NumGroups == (Len(documents) + BatchSize - 1) \div BatchSize

\* log, from the g-th group on, is a run of the protocol or a beginning of one
RECURSIVE FollowsProtocol(_, _)
FollowsProtocol(log, g) ==
  IF Len(log) = 0 THEN TRUE
  ELSE IF g > NumGroups THEN FALSE
  ELSE /\ log[1].docs = Group(g)
       /\ ~log[1].retry
       /\ IF log[1].ok THEN FollowsProtocol(Tail(log), g + 1)
          ELSE LET n == Len(Group(g))
                   m == Min(n, Len(log) - 1)
               IN  /\ \A x \in 1..m : /\ log[1 + x].docs = <<Group(g)[x]>>
                                      /\ log[1 + x].retry
                   /\ Len(log) - 1 >= n
                        => FollowsProtocol(SubSeq(log, n + 2, Len(log)), g + 1)

Attempts(x) == Cardinality({k \in 1..Len(addLog) : x \in Range(addLog[k].docs)})

LoopDone == ipc \in {"final", "finished"}

BatchesInOrder ==
  /\ FollowsProtocol(addLog, 1)
  /\ \A x \in 1..Len(documents) : Attempts(x) <= 2
  /\ LoopDone => \A x \in 1..Len(documents) : Attempts(x) >= 1

BatchesInOrderWitness ==
  /\ ipc = "finished"
  /\ Len(documents) = 5
  /\ \E x \in 1..2 : Attempts(x) = 2
  /\ \E k \in 1..Len(addLog) : addLog[k].ok /\ Len(addLog[k].docs) = 2
  /\ \E k \in 1..Len(addLog) : ~addLog[k].ok /\ addLog[k].retry
  /\ BatchesInOrder

(***************************************************************************)
(* C16: no failed add aborts the run, the loop always goes on to the end;  *)
(* the success count is the number of documents stored by a successful     *)
(* add, at most the total, and total minus success count is the number of  *)
(* documents whose individual retry failed.                                *)
(***************************************************************************)
StoredByAdd == UNION {Range(addLog[k].docs) : k \in {n \in 1..Len(addLog) : addLog[n].ok}}

RetryFailed ==
  UNION {Range(addLog[k].docs) :
           k \in {n \in 1..Len(addLog) : addLog[n].retry /\ ~addLog[n].ok}}

SuccessCountExact ==
  /\ successCount = Cardinality(StoredByAdd)
  /\ successCount <= Len(documents)
  /\ LoopDone => Len(documents) - successCount = Cardinality(RetryFailed)

LoopGoesOn ==
  [][(ipc \in {"batch", "retry"}) => (ipc' \in {"batch", "retry", "final"})]_vars

AddFailureNeverAborts == []SuccessCountExact /\ LoopGoesOn

AddFailureNeverAbortsWitness ==
  /\ ipc = "finished"
  /\ Len(documents) = 5
  /\ successCount = 3
  /\ Cardinality(RetryFailed) = 2
  /\ \E k \in 1..Len(addLog) : addLog[k].ok /\ addLog[k].retry
  /\ \E k \in 1..Len(addLog) : addLog[k].ok /\ ~addLog[k].retry

(***************************************************************************)
(* Backup: what the collection holds, as (id, content, metadata) triples,  *)
(* and the outcome of the import the caller has just awaited.              *)
(***************************************************************************)
Triples(docs) ==
  {[id |-> id, content |-> docs[id].content, metadata |-> docs[id].metadata] :
     id \in DOMAIN docs}

ImportReturned == ret.op = "importBackup"

ImportSucceeded == ImportReturned /\ ret.error = ""

\* the file is as exportBackup wrote it, blank lines aside
FileIntact == backupFile.state \in {"exported", "padded"}

\* C17: importing with clearExisting = true the file that exportBackup wrote
\* leaves the collection with exactly the (id, content, metadata) triples it
\* held when it was exported, whatever it held before the import; the
\* metadata are the flattened values the store holds
BackupRoundTrip ==
  (ImportSucceeded /\ ret.results.clearExisting /\ FileIntact)
    => Triples(stored) = Range(backupFile.written)

\* a collection with a flattened tag list and numbers was exported and then
\* imported into the collection after it had been emptied
BackupRoundTripWitness ==
  /\ ImportSucceeded
  /\ ret.results.clearExisting
  /\ FileIntact
  /\ DOMAIN ret.results.before = {}
  /\ Len(backupFile.written) = Cardinality(Ids)
  /\ stored["d1"].metadata.tags = Str("css,tailwind")
  /\ stored["d1"].metadata.priority = Num(90)

\* the documents of the file, as exportBackup wrote them
FileIds == {backupFile.written[x].id : x \in 1..Len(backupFile.written)}

FileDocument(id) == CHOOSE d \in Range(backupFile.written) : d.id = id

\* C18: after a successful import with clearExisting = true the collection
\* holds the documents of the file and no other; after a successful import
\* with clearExisting = false it holds the documents of the file and, as they
\* were, the prior documents whose id the file does not have
ImportReplacesOrAugments ==
  (ImportSucceeded /\ FileIntact) =>
    LET before == ret.results.before
    IN  /\ DOMAIN stored = IF ret.results.clearExisting THEN FileIds
                           ELSE DOMAIN before \cup FileIds
        /\ \A id \in FileIds :
             /\ stored[id].content = FileDocument(id).content
             /\ stored[id].metadata = FileDocument(id).metadata
        /\ \A id \in DOMAIN stored \ FileIds : stored[id] = before[id]

\* an import with clearExisting = true drops a prior document the file lacks
ImportReplacesWitness ==
  /\ ImportSucceeded
  /\ FileIntact
  /\ ret.results.clearExisting
  /\ FileIds # {}
  /\ DOMAIN ret.results.before \ FileIds # {}
  /\ DOMAIN stored = FileIds

\* an import with clearExisting = false keeps the prior documents the file
\* lacks and puts the file's version of a document in the place of the
\* version the collection held
ImportAugmentsWitness ==
  /\ ImportSucceeded
  /\ FileIntact
  /\ ~ret.results.clearExisting
  /\ Cardinality(DOMAIN stored) > Cardinality(FileIds)
  /\ \E id \in FileIds \cap DOMAIN ret.results.before :
       /\ ret.results.before[id].content # FileDocument(id).content
       /\ stored[id].content = FileDocument(id).content

\* the file is missing, has blanks only, or has a line that is not JSON
FileUnreadable == backupFile.state \in {"missing", "emptied", "truncated"}

\* C19: an import of a file that is missing, has no non-blank line or has a
\* non-blank line that is not valid JSON fails, adds no document and leaves
\* the collection as it was before the call, with clearExisting true or false
UnreadableBackupFailsWhole ==
  (ImportReturned /\ FileUnreadable) =>
    /\ ret.error # ""
    /\ stored = ret.results.before
    /\ \A x \in 1..Len(calls) : calls[x] \notin {"addDocuments", "deleteCollection"}

\* a file with a cut line was imported with clearExisting = true into a
\* collection that held documents
UnreadableBackupWitness ==
  /\ ImportReturned
  /\ backupFile.state = "truncated"
  /\ ret.results.clearExisting
  /\ ret.error = "MalformedInput"
  /\ Len(backupFile.written) > 0
  /\ DOMAIN stored = Ids

ExportSucceeded == ret.op = "exportBackup" /\ ret.error = ""

\* the lines of a text: a line feed at the very end ends the last line
\* rather than starting another one
TextLines(toks) ==
  LET lines == SplitLines(toks)
  IN  IF Len(lines[Len(lines)]) = 0 THEN SubSeq(lines, 1, Len(lines) - 1) ELSE lines

\* the record of a document: id, content and metadata, nothing else
RecordOf(doc) ==
  JObject([id |-> Str(doc.id), content |-> Str(doc.content),
           metadata |-> JObject(doc.metadata)])

\* the text written has one line more than the store returned documents;
\* line 1 is the JSON text of an object with version, exportDate and stats,
\* line 1 + i that of the record of the i-th document returned
ExportedText ==
  ExportSucceeded =>
    LET lines == TextLines(backupFile.content)
        returned == ret.results
    IN  /\ Len(lines) = 1 + Len(returned)
        /\ JSONParse(lines[1]).ok
        /\ DOMAIN JSONParse(lines[1]).v.members = {"version", "exportDate", "stats"}
        /\ \A i \in 1..Len(returned) :
             /\ JSONParse(lines[1 + i]).ok
             /\ JSONParse(lines[1 + i]).v = RecordOf(returned[i])

\* the import took the lines after the first non-blank one, blank lines
\* left out, for one document each, in the order of the file
ImportedInFileOrder ==
  (ImportReturned /\ FileIntact /\ ret.error # "InitFailed") =>
    /\ Len(ret.results.documents) = Len(backupFile.written)
    /\ \A i \in 1..Len(backupFile.written) :
         /\ ret.results.documents[i].id = backupFile.written[i].id
         /\ ret.results.documents[i].content = backupFile.written[i].content
         /\ ret.results.documents[i].metadata = backupFile.written[i].metadata
         /\ ret.results.documents[i].embedding = <<>>

\* C20: exportBackup of N documents writes 1 + N lines, the header
\* {version, exportDate, stats} and then the record {id, content, metadata}
\* of each document in the order the store returned them, without embedding;
\* importBackup takes line 1 for the header and each further non-blank line
\* for one document, in file order
BackupFileFormat == ExportedText /\ ImportedInFileOrder

\* three documents were exported in an order that is not the order of
\* their ids
BackupFileFormatWitness ==
  /\ ExportSucceeded
  /\ Len(ret.results) = Cardinality(Ids)
  /\ ret.results[1].id = "d3"
  /\ Len(TextLines(backupFile.content)) = 1 + Cardinality(Ids)

\* a file with blank lines was read as the documents it was written with
ImportedInFileOrderWitness ==
  /\ ImportReturned
  /\ backupFile.state = "padded"
  /\ Len(ret.results.documents) = Cardinality(Ids)
  /\ ret.results.documents[1].id = "d2"

(***************************************************************************)
(* The connection handle                                                   *)
(***************************************************************************)
\* initialize() called on a client that is initialized returns at once:
\* no request is sent and nothing changes
InitializeIsNoOp ==
  \A t \in Tasks :
    (/\ tasks[t].pc = "idle"
     /\ tasks'[t].op = "initialize"
     /\ clients[tasks[t].client].isInitialized)
      => /\ tasks'[t].pc = "done"
         /\ tasks'[t].calls = 0
         /\ tasks'[t].error = ""
         /\ clients' = clients
         /\ backend' = backend

\* the handle of client c is replaced in this step by the call t
Reassigned(c) ==
  /\ clients[c].collection # NullHandle
  /\ clients'[c].collection # clients[c].collection

\* the original wording of C21: a handle, once assigned, is never assigned
\* again, and initialize after a successful initialize sends nothing
HandleAssignedOnce ==
  [][InitializeIsNoOp /\ \A c \in Clients : ~Reassigned(c)]_vars

\* C21: over any sequence of awaited calls on one client, initialize after a
\* successful initialize sends no request and changes nothing, and a handle
\* once assigned is replaced only by clearCollection(true) or
\* importBackup(path, true), when the createCollection that follows their
\* deleteCollection has answered, with the handle of the collection created
HandleReplacedOnlyByRecreate ==
  [][/\ InitializeIsNoOp
     /\ \A c \in Clients :
          Reassigned(c) =>
            \E t \in Tasks :
              /\ tasks[t].client = c
              /\ tasks[t].op \in {"clearCollection", "importBackup"}
              /\ tasks[t].confirm
              /\ tasks[t].pc = "recreate"
              /\ clients'[c].collection = tasks[t].resp
              /\ clients'[c].collection = backend.coll]_vars

\* clearCollection(true) has returned on a client that was connected to the
\* first collection and now holds the handle of the second; an initialize
\* that follows has sent nothing
HandleReplacedWitness ==
  /\ tasks[1].op = "initialize"
  /\ tasks[1].pc = "done"
  /\ tasks[1].calls = 0
  /\ lifeObs.deletes = 1
  /\ clients[1].isInitialized
  /\ clients[1].collection = 2
  /\ backend.coll = 2

\* C22: whatever the interleaving of the calls started on an uninitialized
\* client, or on two clients of the same absent collection, as long as the
\* store answers every request and nobody deletes the collection,
\* createCollection is sent at most once and no call fails to initialize
InitializationOneShot ==
  (~lifeObs.faulty /\ lifeObs.deletes = 0) =>
    /\ lifeObs.initCreates <= 1
    /\ \A t \in Tasks : tasks[t].error # "InitFailed"

(***************************************************************************)
(* Category and priority of a file                                         *)
(***************************************************************************)
\* the keywords of the two lists, in the order listed, with their values
CategoryKeywords ==
  <<<<"architecture", "architecture">>, <<"chatbot", "chatbot">>, <<"design", "design">>,
    <<"implementation", "implementation-plans">>, <<"roadmap", "roadmaps">>,
    <<"research", "research">>, <<"testing", "testing">>, <<"audit", "audits">>,
    <<"eval", "evaluations">>, <<"css", "styling">>, <<"style", "styling">>,
    <<"animation", "animation">>, <<"migration", "migrations">>, <<"content", "content">>,
    <<"feature", "features">>, <<"_archive", "archive">>>>

PriorityKeywords ==
  <<<<"claude.md", 100>>, <<"readme", 95>>, <<"current", 95>>, <<"quick-reference", 90>>,
    <<"implementation-plan", 85>>, <<"architecture", 80>>, <<"design", 75>>,
    <<"roadmap", 75>>, <<"testing", 70>>, <<"_archive", 30>>, <<"old", 35>>,
    <<"deprecated", 35>>>>

\* the keywords are searched in the path below docs/, lower-cased letter by
\* letter
Lowered(filePath) == LowerFrom(PathRelative(filePath), 1)

Matches(list, filePath) == {i \in 1..Len(list) : Includes(Lowered(filePath), list[i][1])}

FirstMatch(list, filePath) ==
  list[CHOOSE i \in Matches(list, filePath) : \A j \in Matches(list, filePath) : i <= j][2]

ListOf(fn) == IF fn = "inferCategory" THEN CategoryKeywords ELSE PriorityKeywords

\* C23: inferCategory and inferPriority return the value of the first
\* keyword of their list that occurs in the lower-cased path, whatever later
\* keywords occur and whatever the letter case of the path
FirstKeywordWins ==
  (purePc = "returned" /\ Matches(ListOf(pureOut.fn), pureArg) # {})
    => pureOut.value = FirstMatch(ListOf(pureOut.fn), pureArg)

\* a path in capitals with 'architecture' and '_archive' got priority 80
FirstKeywordWinsWitness ==
  /\ purePc = "returned"
  /\ pureArg = DocsDir \o "Architecture/_archive/notes.md"
  /\ pureOut = [fn |-> "inferPriority", value |-> 80]

\* the same path got category 'architecture'
FirstKeywordCategoryWitness ==
  /\ purePc = "returned"
  /\ pureArg = DocsDir \o "Architecture/_archive/notes.md"
  /\ pureOut = [fn |-> "inferCategory", value |-> "architecture"]

\* C24: for a path in which no keyword of the list occurs, inferCategory
\* returns "general" and inferPriority returns 60
DefaultWithoutKeyword ==
  (purePc = "returned" /\ Matches(ListOf(pureOut.fn), pureArg) = {})
    => pureOut.value = IF pureOut.fn = "inferCategory" THEN "general" ELSE 60

(***************************************************************************)
(* Metadata flattening                                                     *)
(***************************************************************************)
\* the elements of a list of the model joined with ','
CommaJoined(l) ==
  CASE Len(l) = 0 -> ""
    [] Len(l) = 1 -> l[1]
    [] Len(l) = 2 -> l[1] \o "," \o l[2]

Scalar(v) == v.k \in {"string", "number", "boolean"}

\* what the flattening has to give for a value that is kept
Flattened(v) ==
  IF v.k = "array" THEN Str(CommaJoined(v.l))
  ELSE IF v.k = "date" THEN Iso(<<v.d \div 10, v.d % 10>>)
  ELSE v

KeptKeys(m) == {key \in DOMAIN m : Scalar(m[key]) \/ m[key].k \in {"array", "date"}}

\* C25: sanitizeMetadata(m) has exactly the keys of m whose value is not
\* null, undefined or an object other than a list or a date; a list became
\* its elements joined with ',', a date its timestamp string, a scalar is
\* kept; every value of the result is a scalar, m is as it was, and
\* sanitizing the result again changes nothing
SanitizeFlattens ==
  /\ purePc = "returned" =>
       /\ pureOut.given = pureArg
       /\ DOMAIN pureOut.value = KeptKeys(pureArg)
       /\ \A key \in DOMAIN pureOut.value :
            /\ pureOut.value[key] = Flattened(pureArg[key])
            /\ Scalar(pureOut.value[key])
  /\ purePc = "again" => pureOut.value = pureOut.given

\* tags ['a','b'] became 'a,b' and a nested object is gone
SanitizeFlattensWitness ==
  /\ purePc = "returned"
  /\ pureArg = [tags |-> List(<<"a", "b">>), title |-> Obj, updated |-> Bool(TRUE)]
  /\ pureOut.value = [tags |-> Str("a,b"), updated |-> Bool(TRUE)]

(***************************************************************************)
(* Failures while documents are written                                    *)
(***************************************************************************)
\* C26: when importBackup(path, true) fails, the documents the collection
\* held before the call are still in it, as they were
FailedImportKeepsDocuments ==
  (ImportReturned /\ ret.results.clearExisting /\ ret.error # "") =>
    \A id \in DOMAIN ret.results.before :
      /\ id \in DOMAIN stored
      /\ stored[id] = ret.results.before[id]

\* the call that returns in this step is an addDocuments call
AddReturns == ret.op = "none" /\ ret'.op = "addDocuments"

NotCalled(call) == \A x \in 1..Len(calls') : calls'[x] # call

\* C27: an addDocuments call that fails for its embeddings (the generator
\* fails for a document, or a document has no embedding and no embedding
\* function is configured) throws without the store's add being called and
\* leaves the collection as it was; a call that succeeds stores embeddings
\* the generator gave, no other vector; a call with an empty list calls
\* neither the generator nor the store's add
AddIsAllOrNothing ==
  [][/\ (AddReturns /\ ret'.error \in {"EmbeddingFailed", "EmbeddingsRequired"})
          => (stored' = stored /\ NotCalled("add"))
     /\ \A S \in SUBSET Ids, failAt \in 1..Cardinality(Ids) :
          (/\ AddDocuments(S, "embed", failAt)
           /\ isInitialized'
           /\ \E id \in S : docEmbedding[id] = <<>>)
            => ret'.error \in {"EmbeddingFailed", "EmbeddingsRequired"}
     /\ (AddReturns /\ ret'.error = "")
          => \A id \in DOMAIN stored' :
               stored'[id].embedding = Generate(Corpus[id].content)
     /\ \A fail \in {"none", "add"} :
          AddDocuments({}, fail, 1)
            => (NotCalled("add") /\ NotCalled("generate") /\ stored' = stored)]_vars

\* the generator failed for the second document of a call: the first one
\* was embedded, nothing was added
AddIsAllOrNothingWitness ==
  /\ ret.op = "addDocuments"
  /\ ret.error = "EmbeddingFailed"
  /\ Len(SelectSeq(calls, LAMBDA call : call = "generate")) = 2
  /\ \A x \in 1..Len(calls) : calls[x] # "add"
  /\ stored = <<>>

\* a clearCollection call without confirmation is refused on the spot: no
\* request is sent, the store and the clients stay as they were
ClearRefusedUntouched ==
  [][\A t \in Tasks :
       (tasks[t].pc = "idle" /\ tasks'[t].op = "clearCollection" /\ ~tasks'[t].confirm)
         => /\ tasks'[t].pc = "done"
            /\ tasks'[t].error = "MustConfirm"
            /\ tasks'[t].calls = 0
            /\ clients' = clients
            /\ backend' = backend
            /\ lifeObs' = lifeObs]_vars

\* a clearCollection(true) call that succeeded: the collection exists, is
\* empty, and is the one the client's handle refers to
ClearedAndConnected ==
  \A t \in Tasks :
    (tasks[t].pc = "done" /\ tasks[t].op = "clearCollection" /\ tasks[t].error = "")
      => /\ tasks[t].confirm
         /\ backend.coll # 0
         /\ backend.docs = 0
         /\ clients[tasks[t].client].collection = backend.coll

\* C28: clearCollection without confirm = true throws and sends no request
\* (no getCollection, deleteCollection or createCollection), the collection
\* and the client stay unchanged; after clearCollection(true) succeeds the
\* collection exists, is empty and is the one the client's handle refers to
ClearNeedsConfirm == []ClearedAndConnected /\ ClearRefusedUntouched

\* clearCollection(true) succeeded on a collection that held a document
ClearNeedsConfirmWitness ==
  \E t \in Tasks :
    /\ tasks[t].pc = "done" /\ tasks[t].op = "clearCollection" /\ tasks[t].error = ""
    /\ lifeObs.dropped = 1
    /\ lifeObs.deletes = 1

\* clearCollection() was refused on a connected client whose collection
\* holds a document
ClearRefusedWitness ==
  \E t \in Tasks :
    /\ tasks[t].pc = "done" /\ tasks[t].error = "MustConfirm"
    /\ clients[tasks[t].client].isInitialized
    /\ backend.docs = 1

\* a client marked initialized holds a handle, and no call has met the
\* 'Collection not initialized' error
HandleWhenInitialized ==
  /\ \A c \in Clients : clients[c].isInitialized => clients[c].collection # NullHandle
  /\ \A t \in Tasks : tasks[t].error # "NotInitialized"

\* the step in which a call's initialization fails leaves the client's flag
\* and handle as they were
FailedInitializeKeepsFlag ==
  [][\A t \in Tasks :
       (tasks[t].error = "" /\ tasks'[t].error = "InitFailed")
         => clients'[tasks[t].client] = clients[tasks[t].client]]_vars

\* C29: in every reachable state, whatever the calls, their interleaving
\* and the requests the store fails, isInitialized implies a handle other
\* than null; a failed initialization does not set isInitialized; no public
\* method reaches the 'Collection not initialized' error
InitializedMeansConnected == []HandleWhenInitialized /\ FailedInitializeKeepsFlag

\* a call's initialization failed because the store failed a request, and
\* its client is still not initialized while another call is in progress
InitializedMeansConnectedWitness ==
  \E t \in Tasks :
    /\ tasks[t].pc = "done" /\ tasks[t].error = "InitFailed"
    /\ ~clients[tasks[t].client].isInitialized
    /\ lifeObs.faulty
    /\ \E u \in Tasks \ {t} : tasks[u].pc \notin {"idle", "done"}

\* C30: after updateDocuments([d]) succeeds for an id the collection holds,
\* with an embedding function configured, the store holds d.content with the
\* embedding generated from d.content, whether or not d carried an
\* embedding; every other document is unchanged
UpdateReplacesContentAndEmbedding ==
  [][(/\ ret.op = "none"
      /\ ret'.op = "updateDocuments"
      /\ ret'.error = ""
      /\ embeddingFunction
      /\ Revised.id \in DOMAIN stored)
       => /\ DOMAIN stored' = DOMAIN stored
          /\ stored'[Revised.id].content = Revised.content
          /\ stored'[Revised.id].embedding = Generate(Revised.content)
          /\ \A id \in DOMAIN stored \ {Revised.id} : stored'[id] = stored[id]]_vars

====
